---- MODULE Spec2Model ----
(***************************************************************************)
(* Export pipeline of skyportal-dumps: the page loops and rate pacing of   *)
(* utils.py / dump_sources.py, and the callers that decide whether the     *)
(* fetched sources are formatted and written.                              *)
(***************************************************************************)
EXTENDS Integers, Sequences, FiniteSets, TLC

\* ------------------------------------------------------------------------
\* Bounds of the model
\* ------------------------------------------------------------------------
MaxItems == 10
MaxPerPage == 3

\* ------------------------------------------------------------------------
\* Program constants
\* ------------------------------------------------------------------------
PaceLimit == 10

\* HTTP statuses the catalog answers with
Statuses == {200, 500, 400, 401}

\* The paginating functions: get_all_sources_and_phot of utils.py (called by
\* dump of the event export), get_all_sources_and_phot of dump_sources.py
\* (called by its main), get_all_gcnevents and get_all_observations.
Functions == {"sources_and_phot", "sources_and_phot_ds", "gcnevents", "observations"}

VARIABLES
    fn,              \* which paginating function runs
    numPerPage,      \* page size N
    catalogSize,     \* number M of items the catalog holds
    whitelisted,     \* run parameter: no pacing
    fpc,             \* position: "page_loop", "phot_loop", "returned", "caller_done"
    pageNumber,      \* local pageNumber
    sources,         \* local accumulator (sources / gcnevents / observations)
    request_counter, \* local pacing counter
    finished,        \* local loop flag
    status_code,     \* local status_code (0: not yet assigned)
    photIndex,       \* position of the for loop over sources
    proceeded,       \* the caller entered its formatting branch
    nRequests,       \* history: requests issued
    nPauses,         \* history: time.sleep(1) calls taken
    pageLog,         \* history: page numbers requested, in order
    photLog,         \* history: source ids whose photometry was requested
    pageEndStatus,   \* history: status of the request that ended the page loop
    allOk            \* history: every page request so far was answered 200

fetchVars == <<fn, numPerPage, catalogSize, whitelisted, fpc, pageNumber, sources,
               request_counter, finished, status_code, photIndex, proceeded,
               nRequests, nPauses, pageLog, photLog, pageEndStatus, allOk>>

\* State of one export run (dump of dump_events_and_sources.py, main of
\* dump_sources.py) once the sources and their photometry have been fetched
VARIABLES
    entry,               \* "events": dump_events_and_sources.py, "sources": dump_sources.py
    pc,                  \* position in the entry point
    data,                \* the list returned by get_all_sources_and_phot
    source_list,         \* source_list_to_yaml
    photometry_ref,      \* photometry_list_to_yaml
    instrument_ids,      \* instrument_ids_full_list
    partitions,          \* history: the partitions of photometry_dict, in loop order
    files,               \* the files written so far, in order: [path, rows]
    instruments,         \* raw instruments kept by get_instruments_from_ids
    telescopes,          \* raw telescopes kept by get_telescopes_from_ids
    fetch_status,        \* statuses of the instrument and telescope requests
    notice,              \* get_gcnevent_data found a notice
    gcn_event,           \* the gcn_event record of dump
    telescope_yaml_ids,  \* numeric id -> '=id' of the formatted telescope
    instrument_yaml_ids, \* numeric id -> '=id' of the formatted instrument
    data_to_yaml,        \* the assembled document
    error                \* the exception that ended the run, "none" otherwise

exportVars == <<entry, pc, data, source_list, photometry_ref, instrument_ids,
                partitions, files, instruments, telescopes, fetch_status, notice,
                gcn_event, telescope_yaml_ids, instrument_yaml_ids, data_to_yaml,
                error>>

\* The deduplication step of seperate_sources_from_phot applied on its own
VARIABLES
    dd_points,           \* the list of points (temp_photometry after a run)
    dd_applied           \* how many times the step has run

dedupVars == <<dd_points, dd_applied>>

\* State of main of dump_events_and_sources.py up to its call of dump
VARIABLES
    use_config,          \* args.use_config
    provided,            \* per parameter: "value", "null" (given as None), "absent"
    main_pc,             \* position in main
    params,              \* the locals main assigns from the config file or from args
    messages,            \* the messages printed, in order: [text, names]
    directories_made,    \* main reached the lines that create the directories
    dump_called          \* main called dump

mainVars == <<use_config, provided, main_pc, params, messages, directories_made,
              dump_called>>

\* State of one call of get_gcnevent_data
VARIABLES
    localizationName,    \* the name, as a sequence of pieces of text
    gd_pc,               \* position in get_gcnevent_data
    gd_entered,          \* history: the branches whose body was entered
    gd_result,           \* what the call returned, "none" before it returns
    notices,             \* gcn_event['gcn_notices']: [known, list]
    gd_notice            \* position in notices of the notice returned, 0 without one

dispatchVars == <<localizationName, gd_pc, gd_entered, gd_result, notices, gd_notice>>

\* history of dump: the sky-event lookup and the requests of the raster
\* sky-map issued by get_skymap
VARIABLES
    skymap_requests,     \* how many raster requests were issued
    gcn_status,          \* the status get_gcnevent_data returned, 0 before
    skymap_status        \* the status of the raster request, 0 before

rasterVars == <<skymap_requests, gcn_status, skymap_status>>

\* the catalog an export run talks to: [kind, instruments, telescopes]
VARIABLES
    catalog              \* kind "plain": an answer lists each entity once;
                         \* "repeating": an answer may list an entity again
                         \* and hold entities whose names differ by whitespace;
                         \* "known": the answers are the two lists of the record

envVars == <<catalog>>

\* State of one call of get_all_followup_requests
VARIABLES
    fu_instrument_id,    \* instrument_id is given
    fu_totalMatches,     \* how many follow-up requests the catalog holds
    fu_pc,               \* position in get_all_followup_requests
    fu_pageNumber,       \* local pageNumber
    all_followups,       \* local all_followups, as the number of requests it holds
    fu_result            \* what the call returned: [status, none, followups]

followupVars == <<fu_instrument_id, fu_totalMatches, fu_pc, fu_pageNumber,
                  all_followups, fu_result>>

\* the variables of the operations checked on their own, and the history of
\* the raster requests
sideVars == <<dedupVars, mainVars, dispatchVars, rasterVars, envVars, followupVars>>

vars == <<fetchVars, exportVars, sideVars>>

Min(a, b) == IF a < b THEN a ELSE b

\* ------------------------------------------------------------------------
\* The catalog: page p of M items, N per page (a 200 answer of /api/sources,
\* /api/gcn_event, /api/observation); a raw source carries no photometry yet.
\* ------------------------------------------------------------------------
CatalogPage(M, N, p) ==
    LET lo == (p - 1) * N + 1
        hi == Min(p * N, M)
        n  == IF hi >= lo THEN hi - lo + 1 ELSE 0
    IN [k \in 1..n |-> [id |-> lo + k - 1, has_photometry |-> FALSE]]

\* ------------------------------------------------------------------------
\* The body of the page loop
\* ------------------------------------------------------------------------
LoopFinished_le(status, page_data, N) ==
    IF status = 200 THEN Len(page_data) <= N ELSE TRUE

\* finished after this request: a short page, a 500 or any other status
LoopFinished(status, page_data, N) ==
    IF status = 200 THEN Len(page_data) < N ELSE TRUE

\* sources = page_data on the first page, sources.extend(page_data) afterwards
Accumulate(status, acc, page_data) ==
    IF status = 200
    THEN IF Len(acc) = 0 THEN page_data ELSE acc \o page_data
    ELSE acc

NextPageNumber_always(status, p) == p + 1

\* pageNumber += 1 in both branches of the 200 case, nowhere else
NextPageNumber(status, p) ==
    IF status = 200 THEN p + 1 ELSE p

Pace_ignoreWhitelist(wl, rc) ==
    IF rc + 1 > PaceLimit
    THEN [counter |-> 0, pause |-> TRUE]
    ELSE [counter |-> rc + 1, pause |-> FALSE]

Pace_noReset(wl, rc) ==
    IF wl = FALSE
    THEN IF rc + 1 > PaceLimit
         THEN [counter |-> rc + 1, pause |-> TRUE]
         ELSE [counter |-> rc + 1, pause |-> FALSE]
    ELSE [counter |-> rc, pause |-> FALSE]

\* if whitelisted is False: request_counter += 1;
\*     if request_counter > 10: time.sleep(1); request_counter = 0
Pace(wl, rc) ==
    IF wl = FALSE
    THEN IF rc + 1 > PaceLimit
         THEN [counter |-> 0, pause |-> TRUE]
         ELSE [counter |-> rc + 1, pause |-> FALSE]
    ELSE [counter |-> rc, pause |-> FALSE]

\* only get_all_sources_and_phot has the per-source photometry loop, entered
\* when len(sources) > 0
HasPhotLoop(f) == f \in {"sources_and_phot", "sources_and_phot_ds"}

\* dump of the event export: status = 200 overrides the returned status
DumpProceeds(status) ==
    LET s == 200 IN s = 200 \/ s = 500

\* main of dump_sources.py
MainProceeds(status) ==
    status = 200 \/ status = 500 \/ status = 400

\* One iteration of `while finished == False`, answered with status st
PageLoopStep(st) ==
    LET page_data == IF st = 200 THEN CatalogPage(catalogSize, numPerPage, pageNumber) ELSE <<>>
        fin  == LoopFinished(st, page_data, numPerPage)
        acc  == Accumulate(st, sources, page_data)
        p    == Pace(whitelisted, request_counter)
    IN /\ fpc = "page_loop"
       /\ finished = FALSE
       /\ status_code' = st
       /\ finished' = fin
       /\ sources' = acc
       /\ pageNumber' = NextPageNumber(st, pageNumber)
       /\ request_counter' = p.counter
       /\ nPauses' = nPauses + (IF p.pause THEN 1 ELSE 0)
       /\ nRequests' = nRequests + 1
       /\ pageLog' = Append(pageLog, pageNumber)
       /\ allOk' = (allOk /\ st = 200)
       /\ pageEndStatus' = IF fin THEN st ELSE pageEndStatus
       /\ fpc' = IF ~fin THEN "page_loop"
                 ELSE IF HasPhotLoop(fn) /\ Len(acc) > 0 THEN "phot_loop"
                 ELSE "returned"
       /\ UNCHANGED <<fn, numPerPage, catalogSize, whitelisted, photIndex,
                      proceeded, photLog>>
       /\ UNCHANGED <<exportVars, sideVars>>

PhotLoopDone_first(i, n) == TRUE

\* `for source in sources` ends after the last source
PhotLoopDone(i, n) == i = n

\* One iteration of `for source in sources`, answered with status st
PhotLoopStep(st) ==
    LET p == Pace(whitelisted, request_counter)
    IN /\ fpc = "phot_loop"
       /\ photIndex <= Len(sources)
       /\ status_code' = st
       /\ sources' = IF st = 200
                     THEN [sources EXCEPT ![photIndex].has_photometry = TRUE]
                     ELSE sources
       /\ request_counter' = p.counter
       /\ nPauses' = nPauses + (IF p.pause THEN 1 ELSE 0)
       /\ nRequests' = nRequests + 1
       /\ photLog' = Append(photLog, sources[photIndex].id)
       /\ photIndex' = photIndex + 1
       /\ fpc' = IF PhotLoopDone(photIndex, Len(sources)) THEN "returned" ELSE "phot_loop"
       /\ UNCHANGED <<fn, numPerPage, catalogSize, whitelisted, pageNumber,
                      finished, proceeded, pageLog, pageEndStatus, allOk>>
       /\ UNCHANGED <<exportVars, sideVars>>

\* ------------------------------------------------------------------------
\* Actions
\* ------------------------------------------------------------------------
GetSourcesPage ==
    /\ fn = "sources_and_phot"
    /\ \E st \in Statuses : PageLoopStep(st)

GetSourcesPageDS ==
    /\ fn = "sources_and_phot_ds"
    /\ \E st \in Statuses : PageLoopStep(st)

GetGcneventsPage ==
    /\ fn = "gcnevents"
    /\ \E st \in Statuses : PageLoopStep(st)

GetObservationsPage ==
    /\ fn = "observations"
    /\ \E st \in Statuses : PageLoopStep(st)

GetPhotometry ==
    /\ fn = "sources_and_phot"
    /\ \E st \in Statuses : PhotLoopStep(st)

GetPhotometryDS ==
    /\ fn = "sources_and_phot_ds"
    /\ \E st \in Statuses : PhotLoopStep(st)

\* dump(): lines 9-11 of dump_events_and_sources.py
DumpCaller ==
    /\ fn = "sources_and_phot"
    /\ fpc = "returned"
    /\ proceeded' = DumpProceeds(status_code)
    /\ fpc' = "caller_done"
    /\ UNCHANGED <<fn, numPerPage, catalogSize, whitelisted, pageNumber, sources,
                   request_counter, finished, status_code, photIndex,
                   nRequests, nPauses, pageLog, photLog, pageEndStatus, allOk>>
    /\ UNCHANGED <<exportVars, sideVars>>

\* main(): lines 381-383 of dump_sources.py
MainCaller ==
    /\ fn = "sources_and_phot_ds"
    /\ fpc = "returned"
    /\ proceeded' = MainProceeds(status_code)
    /\ fpc' = "caller_done"
    /\ UNCHANGED <<fn, numPerPage, catalogSize, whitelisted, pageNumber, sources,
                   request_counter, finished, status_code, photIndex,
                   nRequests, nPauses, pageLog, photLog, pageEndStatus, allOk>>
    /\ UNCHANGED <<exportVars, sideVars>>

\* ========================================================================
\* The export run: grouping of photometry, reference resolution, documents
\* ========================================================================
MaxSources == 1
MaxPhot == 2
MaxCatalog == 2

\* A string is a sequence of characters (or of longer tokens that are never
\* split).  A YAML scalar is an integer, a string or None.
Num(n) == [kind |-> "int", num |-> n, str |-> <<>>]
Str(s) == [kind |-> "str", num |-> 0, str |-> s]
None == [kind |-> "none", num |-> 0, str |-> <<>>]

KeyError == [exception |-> "KeyError"]
IsError(r) == "exception" \in DOMAIN r

Front(s) == SubSeq(s, 1, Len(s) - 1)
Last(s) == s[Len(s)]

RECURSIVE LStrip(_)
LStrip(s) == IF s # <<>> /\ Head(s) = " " THEN LStrip(Tail(s)) ELSE s

RECURSIVE RStrip(_)
RStrip(s) == IF s # <<>> /\ Last(s) = " " THEN RStrip(Front(s)) ELSE s

\* str.strip()
strip(s) == RStrip(LStrip(s))

\* f"={x}"
EqPrefix(s) == <<"=">> \o s

public_group_id == <<"=", "public_group_id">>

\* str(i) of a group id
Digits == <<"1", "2", "3", "4">>
IntStr(i) == <<Digits[i]>>

\* ','.join(...)
RECURSIVE Join(_)
Join(ss) ==
    IF ss = <<>> THEN <<>>
    ELSE IF Len(ss) = 1 THEN ss[1]
    ELSE ss[1] \o <<",">> \o Join(Tail(ss))

\* list.sort() of a list of integers
RECURSIVE InsertInt(_, _)
InsertInt(s, x) ==
    IF s = <<>> THEN <<x>>
    ELSE IF x < Head(s) THEN <<x>> \o s
    ELSE <<Head(s)>> \o InsertInt(Tail(s), x)

SortInts_none(g) == g

RECURSIVE SortInts(_)
SortInts(g) == IF g = <<>> THEN <<>> ELSE InsertInt(SortInts(Front(g)), Last(g))

\* list.sort(key=lambda x: x["mjd"]): stable
RECURSIVE InsertByMjd(_, _)
InsertByMjd(s, x) ==
    IF s = <<>> THEN <<x>>
    ELSE IF x.mjd < Head(s).mjd THEN <<x>> \o s
    ELSE <<Head(s)>> \o InsertByMjd(Tail(s), x)

SortByMjd_none(s) == s

RECURSIVE SortByMjd(_)
SortByMjd(s) == IF s = <<>> THEN <<>> ELSE InsertByMjd(SortByMjd(Front(s)), Last(s))

SameObservation_threeFields(x, phot) ==
    /\ x.mjd = phot.mjd
    /\ x.mag = phot.mag
    /\ x.magerr = phot.magerr

\* the duplicate test of seperate_sources_from_phot (utils.py)
SameObservation(x, phot) ==
    /\ x.mjd = phot.mjd
    /\ x.mag = phot.mag
    /\ x.magerr = phot.magerr
    /\ x.limiting_mag = phot.limiting_mag
    /\ x.filter = phot.filter

RemoveDuplicates_none(s) == s

\* a pass that drops only the first point that repeats an earlier one
RECURSIVE RemoveDuplicates_oneDrop(_)
RemoveDuplicates_oneDrop(s) ==
    IF s = <<>> THEN <<>>
    ELSE IF \E k \in 1..(Len(s) - 1) :
               /\ \E j \in 1..(k - 1) : SameObservation(s[j], s[k])
       THEN Append(RemoveDuplicates_oneDrop(Front(s)), Last(s))
       ELSE IF \E j \in 1..(Len(s) - 1) : SameObservation(s[j], Last(s))
            THEN Front(s)
            ELSE s

\* temp_photometry: keep a point unless an equal one was kept before
RECURSIVE RemoveDuplicates(_)
RemoveDuplicates(s) ==
    IF s = <<>> THEN <<>>
    ELSE LET temp == RemoveDuplicates(Front(s))
             phot == Last(s)
         IN IF \E i \in 1..Len(temp) : SameObservation(temp[i], phot)
            THEN temp
            ELSE Append(temp, phot)

\* formattedPhot: the photometry_fields of a point (the fields that play no
\* part in grouping, sorting and deduplication are left out, except origin)
formattedPhot(phot) ==
    [mjd |-> phot.mjd, filter |-> phot.filter, mag |-> phot.mag,
     magerr |-> phot.magerr, limiting_mag |-> phot.limiting_mag,
     origin |-> phot.origin]

\* formattedSource of utils.py: group_ids is the public placeholder
formattedSource(source) ==
    [id |-> source.id, group_ids |-> <<Str(public_group_id)>>]

\* formattedSource of dump_sources.py: group_ids are the numeric group ids
formattedSourceDS(source) ==
    [id |-> source.id,
     group_ids |-> [j \in 1..Len(source.groups) |-> Num(source.groups[j])]]

\* formattedTelescope; yaml_id is the '=id' key
formattedTelescope(telescope) ==
    [nickname |-> telescope.nickname, yaml_id |-> strip(telescope.nickname)]

\* formattedInstrument; yaml_id is the '=id' key.  `if telescope_yaml_ids:`
\* is false for an empty dict, and the record then keeps the numeric id
formattedInstrument(instrument, tel_yaml_ids) ==
    IF DOMAIN tel_yaml_ids # {}
    THEN IF instrument.telescope_id \in DOMAIN tel_yaml_ids
         THEN [name |-> instrument.name,
               telescope_id |-> Str(EqPrefix(tel_yaml_ids[instrument.telescope_id])),
               yaml_id |-> strip(instrument.name)]
         ELSE KeyError
    ELSE [name |-> instrument.name,
          telescope_id |-> Num(instrument.telescope_id),
          yaml_id |-> strip(instrument.name)]

\* formattedPhotRef; `if instrument_yaml_ids is not None:` holds for every dict
formattedPhotRef(photometryRef, inst_yaml_ids) ==
    IF photometryRef.instrument_id.num \in DOMAIN inst_yaml_ids
    THEN [obj_id |-> photometryRef.obj_id,
          instrument_id |-> Str(EqPrefix(inst_yaml_ids[photometryRef.instrument_id.num])),
          group_ids |-> <<Str(public_group_id)>>,
          file |-> photometryRef.file]
    ELSE KeyError

\* the dict built by `d[x["id"]] = formatted["=id"]` over a list: a later
\* entry with the same id replaces an earlier one
LastWithId(list, id) ==
    list[CHOOSE k \in 1..Len(list) :
            /\ list[k].id = id
            /\ \A j \in (k + 1)..Len(list) : list[j].id # id]

TelescopeYamlIds(tels) ==
    [id \in {tels[k].id : k \in 1..Len(tels)} |->
        formattedTelescope(LastWithId(tels, id)).yaml_id]

InstrumentYamlIds_rawName(insts, tel_yaml_ids) ==
    [id \in {insts[k].id : k \in 1..Len(insts)} |-> LastWithId(insts, id).name]

InstrumentYamlIds(insts, tel_yaml_ids) ==
    [id \in {insts[k].id : k \in 1..Len(insts)} |->
        formattedInstrument(LastWithId(insts, id), tel_yaml_ids).yaml_id]

\* get_instruments_from_ids / get_telescopes_from_ids: the entities of the
\* catalog answer whose id is asked for, none when the request failed
get_instruments_from_ids_all(ids, status, all_instruments) ==
    IF status = 200 THEN all_instruments ELSE <<>>

get_instruments_from_ids(ids, status, all_instruments) ==
    IF status = 200
    THEN SelectSeq(all_instruments, LAMBDA instrument : instrument.id \in ids)
    ELSE <<>>

get_telescopes_from_ids(ids, status, all_telescopes) ==
    IF status = 200
    THEN SelectSeq(all_telescopes, LAMBDA telescope : telescope.id \in ids)
    ELSE <<>>

RECURSIVE Flatten(_)
Flatten(ss) == IF ss = <<>> THEN <<>> ELSE Head(ss) \o Flatten(Tail(ss))

Indexes(L) == [k \in 1..Len(L) |-> k]

photometry_dir == <<"photometry/">>

\* The partitions of one source in seperate_sources_from_phot of utils.py:
\* one per instrument_id, in order of first appearance; each is sorted by
\* mjd, then deduplicated, then written to {id}_{instrument_name}.csv
PartitionsOfSource(source, n) ==
    LET L == source.photometry
        firsts == SelectSeq(Indexes(L), LAMBDA k :
                      \A j \in 1..(k - 1) : L[j].instrument_id # L[k].instrument_id)
    IN [i \in 1..Len(firsts) |->
          LET key == L[firsts[i]].instrument_id
              phots == SelectSeq(L, LAMBDA p : p.instrument_id = key)
              formatted == [j \in 1..Len(phots) |-> formattedPhot(phots[j])]
          IN [src |-> n,
              obj_id |-> source.id,
              instrument_id |-> key,
              group_ids |-> <<>>,
              rows |-> RemoveDuplicates(SortByMjd(formatted)),
              filename |-> source.id \o <<"_">> \o L[firsts[i]].instrument_name
                              \o <<".csv">>]]

PartitionsOfSourceDS_byInstrument(source, n) == PartitionsOfSource(source, n)

\* The partitions of one source in seperate_sources_from_phot of
\* dump_sources.py: one per instrument_id and sorted list of group ids, the
\* instruments and, within an instrument, the group lists in order of first
\* appearance; each is sorted by mjd and written to
\* {id}_{instrument_name}_{group ids}.csv
PartitionsOfSourceDS(source, n) ==
    LET L == source.photometry
        group_ids(p) == SortInts(p.groups)
        firsts == SelectSeq(Indexes(L), LAMBDA k :
                      \A j \in 1..(k - 1) : L[j].instrument_id # L[k].instrument_id)
        by_group(key) == SelectSeq(Indexes(L), LAMBDA k :
                      /\ L[k].instrument_id = key
                      /\ \A j \in 1..(k - 1) :
                            ~(L[j].instrument_id = key /\ group_ids(L[j]) = group_ids(L[k])))
        parts(key, name) ==
            [i \in 1..Len(by_group(key)) |->
               LET g == group_ids(L[by_group(key)[i]])
                   phots == SelectSeq(L, LAMBDA p : p.instrument_id = key /\ group_ids(p) = g)
                   formatted == [j \in 1..Len(phots) |-> formattedPhot(phots[j])]
               IN [src |-> n,
                   obj_id |-> source.id,
                   instrument_id |-> key,
                   group_ids |-> g,
                   rows |-> SortByMjd(formatted),
                   filename |-> source.id \o <<"_">> \o name \o <<"_">>
                                  \o Join([j \in 1..Len(g) |-> IntStr(g[j])]) \o <<".csv">>]]
    IN Flatten([i \in 1..Len(firsts) |->
                  parts(L[firsts[i]].instrument_id, L[firsts[i]].instrument_name)])

\* the records appended to photometry_list_to_yaml
PhotometryRefs(parts) ==
    [i \in 1..Len(parts) |->
        [obj_id |-> parts[i].obj_id,
         instrument_id |-> Num(parts[i].instrument_id),
         group_ids |-> <<Str(public_group_id)>>,
         file |-> photometry_dir \o parts[i].filename]]

PhotometryRefsDS(parts) ==
    [i \in 1..Len(parts) |->
        [obj_id |-> parts[i].obj_id,
         instrument_id |-> Num(parts[i].instrument_id),
         group_ids |-> [j \in 1..Len(parts[i].group_ids) |-> Num(parts[i].group_ids[j])],
         file |-> photometry_dir \o parts[i].filename]]

\* the CSV files written, one per partition
CsvWrites(parts) ==
    [i \in 1..Len(parts) |->
        [path |-> photometry_dir \o parts[i].filename, rows |-> parts[i].rows]]

NothingSeparated ==
    [ok |-> TRUE, sources |-> <<>>, photometry |-> <<>>, instrument_ids |-> {},
     partitions |-> <<>>, files |-> <<>>]

\* the Source record appended only under `if len(source["photometry"]) > 0`
RECURSIVE seperate_sources_from_phot_skipEmpty(_)
seperate_sources_from_phot_skipEmpty(d) ==
    IF d = <<>> THEN NothingSeparated
    ELSE LET r == seperate_sources_from_phot_skipEmpty(Front(d))
             source == Last(d)
             parts == PartitionsOfSource(source, Len(d))
         IN IF ~r.ok THEN r
            ELSE IF ~source.has_photometry
            THEN [r EXCEPT !.ok = FALSE]
            ELSE IF Len(source.photometry) = 0 THEN r
            ELSE [ok |-> TRUE,
                  sources |-> Append(r.sources, formattedSource(source)),
                  photometry |-> r.photometry \o PhotometryRefs(parts),
                  instrument_ids |-> r.instrument_ids
                        \cup {parts[i].instrument_id : i \in 1..Len(parts)},
                  partitions |-> r.partitions \o parts,
                  files |-> r.files \o CsvWrites(parts)]

\* seperate_sources_from_phot of utils.py.  A source without a 'photometry'
\* key (its photometry request failed) raises KeyError after its Source
\* record was appended; the files written before stay.
RECURSIVE seperate_sources_from_phot(_)
seperate_sources_from_phot(d) ==
    IF d = <<>> THEN NothingSeparated
    ELSE LET r == seperate_sources_from_phot(Front(d))
             source == Last(d)
             parts == IF Len(source.photometry) > 0
                      THEN PartitionsOfSource(source, Len(d))
                      ELSE <<>>
         IN IF ~r.ok THEN r
            ELSE IF ~source.has_photometry
            THEN [r EXCEPT !.ok = FALSE,
                           !.sources = Append(@, formattedSource(source))]
            ELSE [ok |-> TRUE,
                  sources |-> Append(r.sources, formattedSource(source)),
                  photometry |-> r.photometry \o PhotometryRefs(parts),
                  instrument_ids |-> r.instrument_ids
                        \cup {parts[i].instrument_id : i \in 1..Len(parts)},
                  partitions |-> r.partitions \o parts,
                  files |-> r.files \o CsvWrites(parts)]

\* seperate_sources_from_phot of dump_sources.py
RECURSIVE seperate_sources_from_phot_DS(_)
seperate_sources_from_phot_DS(d) ==
    IF d = <<>> THEN NothingSeparated
    ELSE LET r == seperate_sources_from_phot_DS(Front(d))
             source == Last(d)
             parts == IF Len(source.photometry) > 0
                      THEN PartitionsOfSourceDS(source, Len(d))
                      ELSE <<>>
         IN IF ~r.ok THEN r
            ELSE IF ~source.has_photometry
            THEN [r EXCEPT !.ok = FALSE,
                           !.sources = Append(@, formattedSourceDS(source))]
            ELSE [ok |-> TRUE,
                  sources |-> Append(r.sources, formattedSourceDS(source)),
                  photometry |-> r.photometry \o PhotometryRefsDS(parts),
                  instrument_ids |-> {},
                  partitions |-> r.partitions \o parts,
                  files |-> r.files \o CsvWrites(parts)]

\* ------------------------------------------------------------------------
\* What the catalog can answer in one export run
\* ------------------------------------------------------------------------
SeqsUpTo(S, n) == UNION {[1..k -> S] : k \in 0..n}

SourceNames == <<"s1", "s2", "s3">>
PhotInstrumentIds == {1, 2}
PhotInstrumentName(i) == IF i = 1 THEN <<"a">> ELSE <<"b">>
GroupLists == {<<1>>, <<1, 2>>, <<2, 1>>}

CatalogInstruments ==
    [id : {1, 2}, name : {<<" ", "a">>, <<"b">>}, telescope_id : {1, 2}]
CatalogTelescopes ==
    {[id |-> 1, nickname |-> <<"T", " ">>], [id |-> 2, nickname |-> <<"U">>]}
FetchStatuses == {200, 500}

\* a catalog answer of at most MaxCatalog entities that lists an entity once
CatalogAnswers(S) ==
    {c \in SeqsUpTo(S, MaxCatalog) : \A i, j \in 1..Len(c) : c[i].id = c[j].id => i = j}

PlainInstrumentAnswers == CatalogAnswers(CatalogInstruments)
PlainTelescopeAnswers == CatalogAnswers(CatalogTelescopes)

\* the entities of a catalog that holds names differing by whitespace only
RepeatingInstruments ==
    [id : {1, 2}, name : {<<" ", "a">>, <<"a">>, <<"b">>}, telescope_id : {1}]
RepeatingTelescopes ==
    [id : {1, 2}, nickname : {<<"T", " ">>, <<"T">>}]

\* answers of at most MaxCatalog entities, an entity possibly listed again
RepeatingInstrumentAnswers == SeqsUpTo(RepeatingInstruments, MaxCatalog)
RepeatingTelescopeAnswers == SeqsUpTo(RepeatingTelescopes, MaxCatalog)

\* what GET /api/instrument and GET /api/telescope can answer
InstrumentAnswers ==
    IF catalog.kind = "known" THEN {catalog.instruments}
    ELSE IF catalog.kind = "plain" THEN PlainInstrumentAnswers
    ELSE RepeatingInstrumentAnswers
TelescopeAnswers ==
    IF catalog.kind = "known" THEN {catalog.telescopes}
    ELSE IF catalog.kind = "plain" THEN PlainTelescopeAnswers
    ELSE RepeatingTelescopeAnswers

Point(i, g, m, k) ==
    [instrument_id |-> i, instrument_name |-> PhotInstrumentName(i), groups |-> g,
     mjd |-> m, mag |-> 1, magerr |-> 1, limiting_mag |-> 1, filter |-> "r",
     origin |-> k]

\* What the photometry requests of n sources answered: at most MaxPhot points
\* over all sources, the flat sequence s of them cut into one piece per source
\* (cut[k] is where the k-th piece ends); a source whose request failed
\* (miss) has no 'photometry' key
Piece(s, cut, n, k) ==
    SubSeq(s, (IF k = 1 THEN 0 ELSE cut[k - 1]) + 1, IF k = n THEN Len(s) ELSE cut[k])

PhotChoices(S, n) ==
    {[k \in 1..n |-> [has |-> ~x[3][k], pts |-> Piece(x[1], x[2], n, k)]] :
        x \in {y \in SeqsUpTo(S, MaxPhot) \X [1..(n - 1) -> 0..MaxPhot] \X [1..n -> BOOLEAN] :
                  /\ n = 0 => y[1] = <<>>
                  /\ \A k \in 1..(n - 1) :
                        /\ y[2][k] <= Len(y[1])
                        /\ k > 1 => y[2][k - 1] <= y[2][k]
                  /\ \A k \in 1..n : y[3][k] => Piece(y[1], y[2], n, k) = <<>>}}

\* the photometry of one source of the event export: the points differ in
\* their instrument (and in origin, which is the position in the answer)
EventSource(k, c) ==
    [id |-> <<SourceNames[k]>>, groups |-> <<1>>, has_photometry |-> c.has,
     photometry |-> [j \in 1..Len(c.pts) |-> Point(c.pts[j], <<1>>, 1, j)]]

EventData(n) ==
    {[k \in 1..n |-> EventSource(k, c[k])] : c \in PhotChoices(PhotInstrumentIds, n)}

\* the photometry of one source of the source export: the points differ in
\* instrument, group list and mjd
SourcePointChoices == [instrument_id : {1, 2}, groups : GroupLists, mjd : {1, 2}]

SourceOfExport(k, c) ==
    [id |-> <<SourceNames[k]>>, groups |-> <<2, 1>>, has_photometry |-> c.has,
     photometry |-> [j \in 1..Len(c.pts) |->
                        Point(c.pts[j].instrument_id, c.pts[j].groups, c.pts[j].mjd, j)]]

SourcesData(n) ==
    {[k \in 1..n |-> SourceOfExport(k, c[k])] : c \in PhotChoices(SourcePointChoices, n)}

EmptyDocument ==
    [telescope |-> <<>>, instrument |-> <<>>, sources |-> <<>>, photometry |-> <<>>,
     gcn_event |-> <<>>]

\* gcn_event is modelled by the keys of the record dump builds
NoGcnEvent == {}

\* dump lines 28-35: the record built from the raster sky-map
RasterEvent == {"dateobs", "skymap", "tags"}

\* dump lines 36-41: the record built from the notice
NoticeEvent == {"xml"}

AfterGcneventData_swapped(found) == IF found THEN "skymap" ELSE "notice"

\* dump line 28, `if notice is None`: where dump goes with the answer of
\* get_gcnevent_data
AfterGcneventData(found) == IF found THEN "notice" ELSE "skymap"

\* the export variables where no export runs
ExportIdle ==
    /\ entry = "none"
    /\ pc = "idle"
    /\ data = <<>>
    /\ source_list = <<>>
    /\ photometry_ref = <<>>
    /\ instrument_ids = {}
    /\ partitions = <<>>
    /\ files = <<>>
    /\ instruments = <<>>
    /\ telescopes = <<>>
    /\ fetch_status = <<0, 0>>
    /\ notice = FALSE
    /\ gcn_event = NoGcnEvent
    /\ telescope_yaml_ids = <<>>
    /\ instrument_yaml_ids = <<>>
    /\ data_to_yaml = EmptyDocument
    /\ error = "none"

\* the fetch variables where no fetch runs
FetchIdle ==
    /\ fn = "none"
    /\ numPerPage = 1
    /\ catalogSize = 0
    /\ whitelisted = FALSE
    /\ fpc = "idle"
    /\ pageNumber = 1
    /\ sources = <<>>
    /\ request_counter = 0
    /\ finished = FALSE
    /\ status_code = 0
    /\ photIndex = 1
    /\ proceeded = FALSE
    /\ nRequests = 0
    /\ nPauses = 0
    /\ pageLog = <<>>
    /\ photLog = <<>>
    /\ pageEndStatus = 0
    /\ allOk = TRUE

\* the deduplication variables where the step is not run on its own
DedupIdle ==
    /\ dd_points = <<>>
    /\ dd_applied = 0

\* main of the event export is not run
MainIdle ==
    /\ use_config = FALSE
    /\ provided = <<>>
    /\ main_pc = "idle"
    /\ params = <<>>
    /\ messages = <<>>
    /\ directories_made = FALSE
    /\ dump_called = FALSE

\* get_gcnevent_data is not run on its own
DispatchIdle ==
    /\ localizationName = <<>>
    /\ gd_pc = "idle"
    /\ gd_entered = {}
    /\ gd_result = "none"
    /\ notices = [known |-> FALSE, list |-> <<>>]
    /\ gd_notice = 0

RasterIdle == skymap_requests = 0 /\ gcn_status = 0 /\ skymap_status = 0

CatalogOfKind(kind) == [kind |-> kind, instruments |-> <<>>, telescopes |-> <<>>]

EnvIdle == catalog = CatalogOfKind("plain")

NoFollowupResult == [status |-> 0, none |-> TRUE, followups |-> 0]

\* get_all_followup_requests is not run
FollowupIdle ==
    /\ fu_instrument_id = FALSE
    /\ fu_totalMatches = 0
    /\ fu_pc = "idle"
    /\ fu_pageNumber = 1
    /\ all_followups = 0
    /\ fu_result = NoFollowupResult

SideIdle ==
    DedupIdle /\ MainIdle /\ DispatchIdle /\ RasterIdle /\ EnvIdle /\ FollowupIdle

FileWrite(path) == [path |-> path, rows |-> <<>>]

\* ------------------------------------------------------------------------
\* Actions of the event export: dump of dump_events_and_sources.py
\* ------------------------------------------------------------------------
\* line 14
SeperateSources ==
    /\ entry = "events"
    /\ pc = "seperate"
    /\ LET r == seperate_sources_from_phot(data)
       IN /\ files' = r.files
          /\ IF r.ok
             THEN /\ source_list' = r.sources
                  /\ photometry_ref' = r.photometry
                  /\ instrument_ids' = r.instrument_ids
                  /\ partitions' = r.partitions
                  /\ pc' = "instruments"
                  /\ error' = error
             ELSE /\ pc' = "crashed"
                  /\ error' = "KeyError"
                  /\ UNCHANGED <<source_list, photometry_ref, instrument_ids, partitions>>
    /\ UNCHANGED <<entry, data, instruments, telescopes, fetch_status, notice,
                   gcn_event, telescope_yaml_ids, instrument_yaml_ids, data_to_yaml>>
    /\ UNCHANGED <<fetchVars, sideVars>>

\* line 18
GetInstrumentsFromIds ==
    /\ entry = "events"
    /\ pc = "instruments"
    /\ \E st \in FetchStatuses, all_instruments \in InstrumentAnswers :
          /\ instruments' = get_instruments_from_ids(instrument_ids, st, all_instruments)
          /\ fetch_status' = <<st, fetch_status[2]>>
    /\ pc' = "telescopes"
    /\ UNCHANGED <<entry, data, source_list, photometry_ref, instrument_ids, partitions,
                   files, telescopes, notice, gcn_event, telescope_yaml_ids,
                   instrument_yaml_ids, data_to_yaml, error>>
    /\ UNCHANGED <<fetchVars, sideVars>>

\* lines 19-20
GetTelescopesFromIds ==
    /\ entry = "events"
    /\ pc = "telescopes"
    /\ LET telescope_ids == {instruments[k].telescope_id : k \in 1..Len(instruments)}
       IN \E st \in FetchStatuses, all_telescopes \in TelescopeAnswers :
             /\ telescopes' = get_telescopes_from_ids(telescope_ids, st, all_telescopes)
             /\ fetch_status' = <<fetch_status[1], st>>
    /\ pc' = "gcn"
    /\ UNCHANGED <<entry, data, source_list, photometry_ref, instrument_ids, partitions,
                   files, instruments, notice, gcn_event, telescope_yaml_ids,
                   instrument_yaml_ids, data_to_yaml, error>>
    /\ UNCHANGED <<fetchVars, sideVars>>

LookupFailed_serverErrorOnly(st) == st = 500

\* line 24, `if status != 200`
LookupFailed(st) == st # 200

\* lines 23-26: the answer of get_gcnevent_data is a status (404 when the
\* name is not among the localizations of the event) and, with 200, a notice
\* or None
GetGcneventData ==
    /\ entry = "events"
    /\ pc = "gcn"
    /\ \E st \in {200, 404, 500}, found \in BOOLEAN :
          /\ gcn_status' = st
          /\ IF LookupFailed(st)
             THEN /\ pc' = "aborted"
                  /\ notice' = notice
             ELSE /\ notice' = found
                  /\ pc' = AfterGcneventData(found)
    /\ UNCHANGED <<entry, data, source_list, photometry_ref, instrument_ids, partitions,
                   files, instruments, telescopes, fetch_status, gcn_event,
                   telescope_yaml_ids, instrument_yaml_ids, data_to_yaml, error>>
    /\ UNCHANGED <<fetchVars, dedupVars, mainVars, dispatchVars, envVars, followupVars,
                   skymap_requests, skymap_status>>

\* lines 28-35: get_skymap returns an array, empty when the request failed,
\* never None; what write_map does with the empty array is left open
\* (it raises, or it writes the file)
GetSkymap ==
    /\ entry = "events"
    /\ pc = "skymap"
    /\ \E st \in FetchStatuses, raises \in BOOLEAN :
          /\ skymap_status' = st
          /\ IF st # 200 /\ raises
             THEN /\ pc' = "crashed"
                  /\ error' = "write_map"
                  /\ UNCHANGED <<files, gcn_event>>
             ELSE /\ files' = Append(files, FileWrite(<<"localizationName", ".fits">>))
                  /\ gcn_event' = RasterEvent
                  /\ pc' = "format"
                  /\ error' = error
    /\ skymap_requests' = skymap_requests + 1
    /\ gcn_status' = gcn_status
    /\ UNCHANGED <<entry, data, source_list, photometry_ref, instrument_ids, partitions,
                   instruments, telescopes, fetch_status, notice, telescope_yaml_ids,
                   instrument_yaml_ids, data_to_yaml>>
    /\ UNCHANGED <<fetchVars, dedupVars, mainVars, dispatchVars, envVars, followupVars>>

\* lines 36-41
WriteNotice ==
    /\ entry = "events"
    /\ pc = "notice"
    /\ files' = Append(files, FileWrite(<<"localizationName", ".txt">>))
    /\ gcn_event' = NoticeEvent
    /\ pc' = "format"
    /\ UNCHANGED <<entry, data, source_list, photometry_ref, instrument_ids, partitions,
                   instruments, telescopes, fetch_status, notice, telescope_yaml_ids,
                   instrument_yaml_ids, data_to_yaml, error>>
    /\ UNCHANGED <<fetchVars, sideVars>>

\* lines 46-71: format telescopes, instruments, sources and photometry
\* references; a KeyError of formattedInstrument or formattedPhotRef ends
\* the run
FormatRecords ==
    /\ entry = "events"
    /\ pc = "format"
    /\ LET tyi == TelescopeYamlIds(telescopes)
           new_telescopes == [k \in 1..Len(telescopes) |-> formattedTelescope(telescopes[k])]
           new_instruments == [k \in 1..Len(instruments) |->
                                  formattedInstrument(instruments[k], tyi)]
           bad == {k \in 1..Len(instruments) : IsError(new_instruments[k])}
           firstBad == CHOOSE k \in bad : \A j \in bad : k <= j
           iyi == InstrumentYamlIds(instruments, tyi)
           new_refs == [k \in 1..Len(photometry_ref) |->
                           formattedPhotRef(photometry_ref[k], iyi)]
       IN /\ telescope_yaml_ids' = tyi
          /\ IF bad # {}
             THEN /\ instrument_yaml_ids' =
                        InstrumentYamlIds(SubSeq(instruments, 1, firstBad - 1), tyi)
                  /\ pc' = "crashed"
                  /\ error' = "KeyError"
                  /\ data_to_yaml' = data_to_yaml
             ELSE /\ instrument_yaml_ids' = iyi
                  /\ IF \E k \in 1..Len(new_refs) : IsError(new_refs[k])
                     THEN /\ pc' = "crashed"
                          /\ error' = "KeyError"
                          /\ data_to_yaml' = data_to_yaml
                     ELSE /\ pc' = "write_data"
                          /\ error' = error
                          /\ data_to_yaml' =
                                [telescope |-> new_telescopes,
                                 instrument |-> new_instruments,
                                 sources |-> [k \in 1..Len(source_list) |->
                                                 formattedSource(source_list[k])],
                                 photometry |-> new_refs,
                                 gcn_event |-> <<gcn_event>>]
    /\ UNCHANGED <<entry, data, source_list, photometry_ref, instrument_ids, partitions,
                   files, instruments, telescopes, fetch_status, notice, gcn_event>>
    /\ UNCHANGED <<fetchVars, sideVars>>

\* line 74
WriteDataYaml ==
    /\ entry = "events"
    /\ pc = "write_data"
    /\ files' = Append(files, FileWrite(<<"data.yaml">>))
    /\ pc' = "write_config"
    /\ UNCHANGED <<entry, data, source_list, photometry_ref, instrument_ids, partitions,
                   instruments, telescopes, fetch_status, notice, gcn_event,
                   telescope_yaml_ids, instrument_yaml_ids, data_to_yaml, error>>
    /\ UNCHANGED <<fetchVars, sideVars>>

\* line 86
WriteConfigUsed ==
    /\ entry = "events"
    /\ pc = "write_config"
    /\ files' = Append(files, FileWrite(<<"config_used.yaml">>))
    /\ pc' = "done"
    /\ UNCHANGED <<entry, data, source_list, photometry_ref, instrument_ids, partitions,
                   instruments, telescopes, fetch_status, notice, gcn_event,
                   telescope_yaml_ids, instrument_yaml_ids, data_to_yaml, error>>
    /\ UNCHANGED <<fetchVars, sideVars>>

\* ------------------------------------------------------------------------
\* Actions of the source export: main of dump_sources.py
\* ------------------------------------------------------------------------
\* lines 386-392: seperate_sources_from_phot is called twice, the files are
\* written by both calls, the lists of the second call are kept
SeperateSourcesDS ==
    /\ entry = "sources"
    /\ pc = "seperate"
    /\ LET r == seperate_sources_from_phot_DS(data)
       IN IF r.ok
          THEN /\ files' = r.files \o r.files
               /\ source_list' = r.sources
               /\ photometry_ref' = r.photometry
               /\ partitions' = r.partitions
               /\ data_to_yaml' = [EmptyDocument EXCEPT !.sources = r.sources,
                                                        !.photometry = r.photometry]
               /\ pc' = "write_sources"
               /\ error' = error
          ELSE /\ files' = r.files
               /\ pc' = "crashed"
               /\ error' = "KeyError"
               /\ UNCHANGED <<source_list, photometry_ref, partitions, data_to_yaml>>
    /\ UNCHANGED <<entry, data, instrument_ids, instruments, telescopes, fetch_status,
                   notice, gcn_event, telescope_yaml_ids, instrument_yaml_ids>>
    /\ UNCHANGED <<fetchVars, sideVars>>

\* line 393
WriteSourcesYaml ==
    /\ entry = "sources"
    /\ pc = "write_sources"
    /\ files' = Append(files, FileWrite(<<"sources.yaml">>))
    /\ pc' = "write_config"
    /\ UNCHANGED <<entry, data, source_list, photometry_ref, instrument_ids, partitions,
                   instruments, telescopes, fetch_status, notice, gcn_event,
                   telescope_yaml_ids, instrument_yaml_ids, data_to_yaml, error>>
    /\ UNCHANGED <<fetchVars, sideVars>>

\* line 405
WriteConfigUsedDS ==
    /\ entry = "sources"
    /\ pc = "write_config"
    /\ files' = Append(files, FileWrite(<<"config_used.yaml">>))
    /\ pc' = "done"
    /\ UNCHANGED <<entry, data, source_list, photometry_ref, instrument_ids, partitions,
                   instruments, telescopes, fetch_status, notice, gcn_event,
                   telescope_yaml_ids, instrument_yaml_ids, data_to_yaml, error>>
    /\ UNCHANGED <<fetchVars, sideVars>>

ExportInit ==
    /\ FetchIdle
    /\ SideIdle
    /\ \E n \in 0..MaxSources :
          \/ entry = "events" /\ data \in EventData(n)
          \/ entry = "sources" /\ data \in SourcesData(n)
    /\ pc = "seperate"
    /\ source_list = <<>>
    /\ photometry_ref = <<>>
    /\ instrument_ids = {}
    /\ partitions = <<>>
    /\ files = <<>>
    /\ instruments = <<>>
    /\ telescopes = <<>>
    /\ fetch_status = <<0, 0>>
    /\ notice = FALSE
    /\ gcn_event = NoGcnEvent
    /\ telescope_yaml_ids = <<>>
    /\ instrument_yaml_ids = <<>>
    /\ data_to_yaml = EmptyDocument
    /\ error = "none"

ExportNext ==
    \/ SeperateSources
    \/ GetInstrumentsFromIds
    \/ GetTelescopesFromIds
    \/ GetGcneventData
    \/ GetSkymap
    \/ WriteNotice
    \/ FormatRecords
    \/ WriteDataYaml
    \/ WriteConfigUsed
    \/ SeperateSourcesDS
    \/ WriteSourcesYaml
    \/ WriteConfigUsedDS

ExportSpec == ExportInit /\ [][ExportNext]_vars

Init ==
    /\ fn \in Functions
    /\ numPerPage \in 1..MaxPerPage
    /\ catalogSize \in 0..MaxItems
    /\ whitelisted \in BOOLEAN
    /\ fpc = "page_loop"
    /\ pageNumber = 1
    /\ sources = <<>>
    /\ request_counter = 0
    /\ finished = FALSE
    /\ status_code = 0
    /\ photIndex = 1
    /\ proceeded = FALSE
    /\ nRequests = 0
    /\ nPauses = 0
    /\ pageLog = <<>>
    /\ photLog = <<>>
    /\ pageEndStatus = 0
    /\ allOk = TRUE
    /\ ExportIdle
    /\ SideIdle

Next ==
    \/ GetSourcesPage
    \/ GetSourcesPageDS
    \/ GetGcneventsPage
    \/ GetObservationsPage
    \/ GetPhotometry
    \/ GetPhotometryDS
    \/ DumpCaller
    \/ MainCaller

Spec == Init /\ [][Next]_vars

\* ------------------------------------------------------------------------
\* Properties of the page loop and the pacing
\* ------------------------------------------------------------------------
Ceil(a, b) == (a + b - 1) \div b

ExpectedRequests(M, N) ==
    IF M % N # 0 THEN Ceil(M, N) ELSE (M \div N) + 1

\* C1: when every page request is answered 200, the finished page loop has
\* requested pages 1, 2, ... in order, ceil(M/N) of them when N does not
\* divide M and M/N + 1 when it does, and holds exactly the M items of the
\* catalog in catalog order.
C1_PageLoopCollectsAll ==
    (allOk /\ fpc # "page_loop") =>
        /\ [k \in 1..Len(sources) |-> sources[k].id] = [k \in 1..catalogSize |-> k]
        /\ pageLog = [k \in 1..ExpectedRequests(catalogSize, numPerPage) |-> k]

C1_Witness ==
    /\ allOk
    /\ fpc # "page_loop"
    /\ numPerPage >= 2
    /\ catalogSize = 2 * numPerPage
    /\ Len(pageLog) = 3
    /\ Len(sources) = catalogSize

\* C2: a page request answered with a status other than 200 ends the loop in
\* that very iteration: the page number and the accumulated list are left as
\* they were, and once the loop has ended no page is requested and the items
\* of the list do not change any more.
C2_ErrorEndsPageLoop ==
    [][ /\ (fpc = "page_loop" /\ status_code' # 200) =>
              /\ finished'
              /\ fpc' # "page_loop"
              /\ pageNumber' = pageNumber
              /\ sources' = sources
        /\ (fpc # "page_loop") =>
              /\ pageLog' = pageLog
              /\ pageNumber' = pageNumber
              /\ [k \in 1..Len(sources') |-> sources'[k].id]
                   = [k \in 1..Len(sources) |-> sources[k].id]
      ]_vars

C2_Witness ==
    /\ fpc # "page_loop"
    /\ pageEndStatus = 500
    /\ Len(pageLog) = 3
    /\ pageNumber = 3
    /\ Len(sources) = 2 * numPerPage

\* C3 (as claimed): a page loop that ended on a status other than 200 and 500
\* hands that status to the caller, and the caller does not enter its
\* formatting branch.
C3_FailureStopsCaller ==
    (pageEndStatus \notin {0, 200, 500}) =>
        /\ (fpc = "returned" => status_code = pageEndStatus)
        /\ ~proceeded

\* C4 (as claimed): without whitelisting, after k requests exactly k div 10
\* pauses have been taken.
C4_PauseEveryTenRequests ==
    (HasPhotLoop(fn) /\ ~whitelisted) => nPauses = nRequests \div 10

\* C5: with whitelisted = true no pause is ever taken and the counter stays 0.
C5_WhitelistedNeverPauses ==
    whitelisted => (nPauses = 0 /\ request_counter = 0)

C5_Witness ==
    /\ whitelisted
    /\ nRequests > PaceLimit
    /\ Len(photLog) > 0
    /\ fpc = "returned"

\* C6: the pacing counter stays within 0..10, goes back to 0 exactly in the
\* steps that take a pause, and otherwise only counts up by one per request,
\* across the page loop and the photometry loop alike.
C6_FixedWindowCounter ==
    [][ /\ request_counter \in 0..10
        /\ request_counter' \in 0..10
        /\ (nPauses' = nPauses + 1) => request_counter' = 0
        /\ (nPauses' = nPauses) =>
              /\ request_counter' >= request_counter
              /\ request_counter' - request_counter <= nRequests' - nRequests
        /\ nPauses' \in {nPauses, nPauses + 1}
      ]_vars

C6_Witness ==
    /\ HasPhotLoop(fn)
    /\ nPauses = 1
    /\ Len(pageLog) < PaceLimit
    /\ Len(photLog) > 0
    /\ request_counter = 0
    /\ nRequests = PaceLimit + 1

\* ------------------------------------------------------------------------
\* Properties of the written documents
\* ------------------------------------------------------------------------
Written(path) == \E i \in 1..Len(files) : files[i].path = path

DocumentWritten == Written(<<"data.yaml">>) \/ Written(<<"sources.yaml">>)

\* a symbolic reference: a string that begins with '='
IsSymbolic(v) == v.kind = "str" /\ Len(v.str) > 0 /\ v.str[1] = "="

CrossReferences(doc) ==
    {doc.instrument[i].telescope_id : i \in 1..Len(doc.instrument)}
    \cup {doc.photometry[i].instrument_id : i \in 1..Len(doc.photometry)}
    \cup UNION {{doc.photometry[i].group_ids[j] : j \in 1..Len(doc.photometry[i].group_ids)}
                   : i \in 1..Len(doc.photometry)}
    \cup UNION {{doc.sources[i].group_ids[j] : j \in 1..Len(doc.sources[i].group_ids)}
                   : i \in 1..Len(doc.sources)}

\* C7 (as claimed): every cross-reference of a written document (telescope_id
\* of an instrument, instrument_id and group_ids of a photometry reference,
\* group_ids of a source) is a string that begins with '='.
C7_ReferencesAreSymbolic ==
    DocumentWritten => \A v \in CrossReferences(data_to_yaml) : IsSymbolic(v)

FormattingReturned == entry = "events" /\ pc \in {"write_data", "write_config", "done"}

\* C8 (as claimed): formatting returns normally only when every instrument's
\* telescope id and every photometry reference's instrument id is in the
\* resolved mapping, and no returned instrument or photometry reference
\* carries a numeric id.
C8_MissingIdFailsFormatting ==
    FormattingReturned =>
        /\ \A k \in 1..Len(instruments) :
              instruments[k].telescope_id \in DOMAIN telescope_yaml_ids
        /\ \A k \in 1..Len(photometry_ref) :
              photometry_ref[k].instrument_id.num \in DOMAIN instrument_yaml_ids
        /\ \A k \in 1..Len(data_to_yaml.instrument) :
              IsSymbolic(data_to_yaml.instrument[k].telescope_id)
        /\ \A k \in 1..Len(data_to_yaml.photometry) :
              IsSymbolic(data_to_yaml.photometry[k].instrument_id)

\* C9: in a written data.yaml of the event export, the instrument_id of every
\* photometry reference is '=' followed by the '=id' of a record of the
\* instrument section.
C9_ReferencedInstrumentExported ==
    (entry = "events" /\ Written(<<"data.yaml">>)) =>
        \A i \in 1..Len(data_to_yaml.photometry) :
            LET ref == data_to_yaml.photometry[i].instrument_id
            IN /\ IsSymbolic(ref)
               /\ \E j \in 1..Len(data_to_yaml.instrument) :
                     data_to_yaml.instrument[j].yaml_id = Tail(ref.str)

C9_Witness ==
    /\ entry = "events"
    /\ Written(<<"data.yaml">>)
    /\ Len(data_to_yaml.photometry) = 2
    /\ data_to_yaml.photometry[1].instrument_id # data_to_yaml.photometry[2].instrument_id
    /\ \E j \in 1..Len(data_to_yaml.instrument) :
          data_to_yaml.instrument[j].yaml_id # data_to_yaml.instrument[j].name

\* the partitions of the n-th source, and the input point a row comes from
PartitionsOf(n) == {i \in 1..Len(partitions) : partitions[i].src = n}
GroupSet(p) == {p.groups[j] : j \in 1..Len(p.groups)}
Separated == entry = "sources" /\ pc \in {"write_sources", "write_config", "done"}

\* C10: after the grouping of the source export, the points of one partition
\* come from one instrument and one set of groups, every point of a source is
\* in exactly one partition (once), and two points of a source with the same
\* instrument and the same set of groups are in the same partition, whatever
\* the order their groups are listed in.
C10_PartitionByInstrumentAndGroups ==
    Separated =>
        \A n \in 1..Len(data) :
            LET L == data[n].photometry
                Place(k) == {<<i, r>> \in PartitionsOf(n) \X (1..Len(L)) :
                                /\ r <= Len(partitions[i].rows)
                                /\ partitions[i].rows[r].origin = k}
            IN /\ \A i \in PartitionsOf(n) :
                    \A r1, r2 \in 1..Len(partitions[i].rows) :
                        LET p1 == L[partitions[i].rows[r1].origin]
                            p2 == L[partitions[i].rows[r2].origin]
                        IN /\ p1.instrument_id = p2.instrument_id
                           /\ GroupSet(p1) = GroupSet(p2)
               /\ \A k \in 1..Len(L) : Cardinality(Place(k)) = 1
               /\ \A k1, k2 \in 1..Len(L) :
                    (L[k1].instrument_id = L[k2].instrument_id
                        /\ GroupSet(L[k1]) = GroupSet(L[k2]))
                    => \E i \in PartitionsOf(n) :
                          \E r1, r2 \in 1..Len(partitions[i].rows) :
                              /\ partitions[i].rows[r1].origin = k1
                              /\ partitions[i].rows[r2].origin = k2

C10_Witness ==
    /\ Separated
    /\ \E i \in 1..Len(partitions) :
          /\ Len(partitions[i].rows) = 2
          /\ LET L == data[partitions[i].src].photometry
             IN /\ L[partitions[i].rows[1].origin].groups = <<1, 2>>
                /\ L[partitions[i].rows[2].origin].groups = <<2, 1>>

\* ========================================================================
\* The photometry grouper on its own: one source, richer points
\* ========================================================================
MaxPoints == 4

\* the five fields that identify an observation: a base observation and
\* observations that differ from it in one field
BaseObservation == [mjd |-> 1, mag |-> 1, magerr |-> 1, limiting_mag |-> 1, filter |-> "r"]
Observations ==
    {BaseObservation,
     [BaseObservation EXCEPT !.mjd = 2],
     [BaseObservation EXCEPT !.limiting_mag = 2],
     [BaseObservation EXCEPT !.filter = "g"]}

PointOf(i, g, obs, k) ==
    [instrument_id |-> i, instrument_name |-> PhotInstrumentName(i), groups |-> g,
     mjd |-> obs.mjd, mag |-> obs.mag, magerr |-> obs.magerr,
     limiting_mag |-> obs.limiting_mag, filter |-> obs.filter, origin |-> k]

\* the points of the source given to the grouper of utils.py
GroupEventPoints == [instrument_id : PhotInstrumentIds, obs : Observations]

GroupEventSource(pts) ==
    [id |-> <<SourceNames[1]>>, groups |-> <<1>>, has_photometry |-> TRUE,
     photometry |-> [j \in 1..Len(pts) |-> PointOf(pts[j].instrument_id, <<1>>, pts[j].obs, j)]]

\* the export variables before seperate_sources_from_phot is called
ExportStart ==
    /\ pc = "seperate"
    /\ source_list = <<>>
    /\ photometry_ref = <<>>
    /\ instrument_ids = {}
    /\ partitions = <<>>
    /\ files = <<>>
    /\ instruments = <<>>
    /\ telescopes = <<>>
    /\ fetch_status = <<0, 0>>
    /\ notice = FALSE
    /\ gcn_event = NoGcnEvent
    /\ telescope_yaml_ids = <<>>
    /\ instrument_yaml_ids = <<>>
    /\ data_to_yaml = EmptyDocument
    /\ error = "none"

\* the points of the source given to the grouper of dump_sources.py: each has
\* an instrument and a group list, and the times of the points follow one of
\* a few patterns
GroupSourcePoints == [instrument_id : PhotInstrumentIds, groups : {<<1>>, <<2, 1>>}]
TimePatterns == {"ascending", "descending", "constant", "alternating"}
Mjd(pattern, j) ==
    IF pattern = "ascending" THEN j
    ELSE IF pattern = "descending" THEN MaxPoints + 1 - j
    ELSE IF pattern = "constant" THEN 1
    ELSE 1 + (j % 2)

GroupSourcesSource(pts, pattern) ==
    SourceOfExport(1, [has |-> TRUE,
                       pts |-> [j \in 1..Len(pts) |->
                                   [instrument_id |-> pts[j].instrument_id,
                                    groups |-> pts[j].groups,
                                    mjd |-> Mjd(pattern, j)]]])

GroupInit ==
    /\ FetchIdle
    /\ SideIdle
    /\ ExportStart
    /\ \E k \in 0..MaxPoints :
          \/ /\ entry = "events"
             /\ \E pts \in [1..k -> GroupEventPoints] : data = <<GroupEventSource(pts)>>
          \/ /\ entry = "sources"
             /\ \E pts \in [1..k -> GroupSourcePoints], pattern \in TimePatterns :
                   data = <<GroupSourcesSource(pts, pattern)>>

GroupNext ==
    \/ SeperateSources
    \/ SeperateSourcesDS

GroupSpec == GroupInit /\ [][GroupNext]_vars

\* ------------------------------------------------------------------------
\* Properties of the photometry grouper
\* ------------------------------------------------------------------------
\* seperate_sources_from_phot of utils.py has returned
SeparatedEvents == entry = "events" /\ pc # "seperate" /\ fetch_status = <<0, 0>> /\ error = "none"

PathsWritten == {files[i].path : i \in 1..Len(files)}

PartitionKeys(L) == {<<L[k].instrument_id, GroupSet(L[k])>> : k \in 1..Len(L)}

\* C11: after the grouping of the source export, every source has as many
\* partitions as its points have distinct (instrument, group set) pairs, the
\* i-th photometry reference belongs to the i-th partition, and the CSV files
\* written are one per partition, each named by its reference.
C11_OnePartitionPerKey ==
    Separated =>
        /\ \A n \in 1..Len(data) :
              Cardinality(PartitionsOf(n)) = Cardinality(PartitionKeys(data[n].photometry))
        /\ Len(photometry_ref) = Len(partitions)
        /\ \A i \in 1..Len(partitions) :
              /\ photometry_ref[i].obj_id = partitions[i].obj_id
              /\ photometry_ref[i].instrument_id = Num(partitions[i].instrument_id)
              /\ photometry_ref[i].file \in PathsWritten
        /\ Cardinality(PathsWritten) = Len(partitions)

C11_Witness ==
    /\ Separated
    /\ Len(partitions) = 4
    /\ {partitions[i].instrument_id : i \in 1..Len(partitions)} = {1, 2}
    /\ Cardinality({partitions[i].group_ids : i \in 1..Len(partitions)}) = 2

\* two points are the same observation
AgreeOnFive(x, y) ==
    /\ x.mjd = y.mjd
    /\ x.mag = y.mag
    /\ x.magerr = y.magerr
    /\ x.limiting_mag = y.limiting_mag
    /\ x.filter = y.filter

\* the input points of the source of partition i that belong to it
InputOf(i) ==
    LET L == data[partitions[i].src].photometry
    IN {k \in 1..Len(L) :
           /\ L[k].instrument_id = partitions[i].instrument_id
           /\ partitions[i].group_ids # <<>> => SortInts(L[k].groups) = partitions[i].group_ids}

Grouped == SeparatedEvents \/ Separated

\* C13 (as claimed): in the grouping of the source export no two rows of a
\* partition agree on mjd, mag, magerr, limiting_mag and filter.
C13_SourceExportDeduplicated ==
    Separated =>
        \A i \in 1..Len(partitions) :
            \A r1, r2 \in 1..Len(partitions[i].rows) :
                AgreeOnFive(partitions[i].rows[r1], partitions[i].rows[r2]) => r1 = r2

\* C14: in both variants the rows of a partition are in non-decreasing mjd
\* order, and rows with the same mjd are in the order of the input.
C14_RowsSortedByMjd ==
    Grouped =>
        \A i \in 1..Len(partitions) :
            \A r1, r2 \in 1..Len(partitions[i].rows) :
                r1 < r2 =>
                    \/ partitions[i].rows[r1].mjd < partitions[i].rows[r2].mjd
                    \/ /\ partitions[i].rows[r1].mjd = partitions[i].rows[r2].mjd
                       /\ partitions[i].rows[r1].origin < partitions[i].rows[r2].origin

\* a partition of three rows whose input was out of order and held an equal
\* pair of times
C14_Witness ==
    /\ Grouped
    /\ \E i \in 1..Len(partitions) :
          LET rows == partitions[i].rows
          IN /\ Len(rows) = 3
             /\ rows[1].mjd = rows[2].mjd
             /\ rows[2].mjd < rows[3].mjd
             /\ rows[3].origin < rows[2].origin

\* ========================================================================
\* The deduplication step on its own (utils.py, lines 924-930)
\* ========================================================================
MaxApplications == 2

DedupInit ==
    /\ FetchIdle
    /\ ExportIdle
    /\ MainIdle
    /\ DispatchIdle
    /\ RasterIdle
    /\ EnvIdle
    /\ FollowupIdle
    /\ dd_applied = 0
    /\ \E k \in 0..MaxPoints :
          \E obs \in [1..k -> Observations] :
              dd_points = [j \in 1..k |-> formattedPhot(PointOf(1, <<1>>, obs[j], j))]

ApplyRemoveDuplicates ==
    /\ dd_applied < MaxApplications
    /\ dd_points' = RemoveDuplicates(dd_points)
    /\ dd_applied' = dd_applied + 1
    /\ UNCHANGED <<fetchVars, exportVars, mainVars, dispatchVars, rasterVars, envVars, followupVars>>

DedupNext == ApplyRemoveDuplicates

DedupSpec == DedupInit /\ [][DedupNext]_vars

\* C15: once the deduplication step has run on a list, running it again on
\* its output leaves the list as it is, same points in the same order.
C15_DedupIdempotent ==
    [][dd_applied >= 1 => dd_points' = dd_points]_vars

\* the step has run twice on a list from which the first run dropped a point
C15_Witness ==
    /\ dd_applied = 2
    /\ Len(dd_points) = 2
    /\ {dd_points[j].origin : j \in 1..Len(dd_points)} = {1, 3}

\* seperate_sources_from_phot raised (a source without a 'photometry' key)
SeperateCrashed ==
    /\ pc = "crashed"
    /\ entry = "events" => fetch_status = <<0, 0>>

SeperateReturned == pc \notin {"idle", "seperate"} /\ ~SeperateCrashed

\* C16: when seperate_sources_from_phot has returned there is one Source
\* record per raw source, and a source whose photometry list is empty has no
\* partition, no photometry reference and no CSV file; the function raises
\* only when some source has no photometry list at all.
C16_EmptyPhotometryIsValid ==
    /\ SeperateReturned =>
          /\ Len(source_list) = Len(data)
          /\ \A n \in 1..Len(data) :
                (data[n].has_photometry /\ data[n].photometry = <<>>) =>
                    /\ source_list[n].id = data[n].id
                    /\ PartitionsOf(n) = {}
                    /\ \A i \in 1..Len(photometry_ref) : photometry_ref[i].obj_id # data[n].id
                    /\ \A i \in 1..Len(files) :
                          Len(files[i].path) >= 2 => <<files[i].path[2]>> # data[n].id
    /\ SeperateCrashed => \E n \in 1..Len(data) : ~data[n].has_photometry

C16_Witness ==
    /\ pc = "done"
    /\ Len(data) = Len(source_list)
    /\ \E n \in 1..Len(data) : data[n].has_photometry /\ data[n].photometry = <<>>

\* ========================================================================
\* The event export on three sources: one without points, one with five
\* points over two instruments of which two are the same observation of one
\* instrument, one with two points that are the same observation
\* ========================================================================
\* points i and j of the five are the same observation, taken by instrument
\* a; the other three are taken by the other instrument
FivePoints(i, j, a) ==
    [k \in 1..5 |->
        PointOf(IF k \in {i, j} THEN a ELSE 3 - a, <<1>>,
                [BaseObservation EXCEPT !.mjd = IF k = j THEN i ELSE k], k)]

TwoPoints == [k \in 1..2 |-> PointOf(1, <<1>>, BaseObservation, k)]

ScenarioSource(k, pts) ==
    [id |-> <<SourceNames[k]>>, groups |-> <<1>>, has_photometry |-> TRUE, photometry |-> pts]

\* the three sources, in one of the three rotations of their order
ScenarioData(i, j, a, rot) ==
    LET three == <<ScenarioSource(1, <<>>),
                   ScenarioSource(2, FivePoints(i, j, a)),
                   ScenarioSource(3, TwoPoints)>>
    IN [k \in 1..3 |-> three[((k + rot - 1) % 3) + 1]]

ScenarioInit ==
    /\ FetchIdle
    /\ SideIdle
    /\ ExportStart
    /\ entry = "events"
    /\ \E i, j \in 1..5, a \in PhotInstrumentIds, rot \in 0..2 :
          /\ i < j
          /\ data = ScenarioData(i, j, a, rot)

EventNext ==
    \/ SeperateSources
    \/ GetInstrumentsFromIds
    \/ GetTelescopesFromIds
    \/ GetGcneventData
    \/ GetSkymap
    \/ WriteNotice
    \/ FormatRecords
    \/ WriteDataYaml
    \/ WriteConfigUsed

ScenarioSpec == ScenarioInit /\ [][EventNext]_vars

\* the rows of the CSV files of one source, all its partitions together
RECURSIVE RowsWritten(_, _)
RowsWritten(parts, id) ==
    IF parts = <<>> THEN 0
    ELSE RowsWritten(Front(parts), id)
            + (IF Last(parts).obj_id = id THEN Len(Last(parts).rows) ELSE 0)

ReferencesOf(id) ==
    {i \in 1..Len(data_to_yaml.photometry) : data_to_yaml.photometry[i].obj_id = id}

\* C17 (as claimed): the data.yaml written for the three sources holds 3
\* Source records and 2 photometry references, and the CSV files of the
\* five-point source hold 4 rows.
C17_ScenarioTwoReferences ==
    Written(<<"data.yaml">>) =>
        /\ Len(data_to_yaml.sources) = 3
        /\ Len(data_to_yaml.photometry) = 2
        /\ RowsWritten(partitions, <<"s2">>) = 4

\* C17 (amended): the data.yaml written for the three sources holds 3 Source
\* records and 3 photometry references (none for the source without points,
\* one per instrument for the five-point source, one for the two-point
\* source); the CSV files of the five-point source hold 4 rows together and
\* the CSV file of the two-point source holds 1.
C17_ScenarioThreeReferences ==
    Written(<<"data.yaml">>) =>
        /\ Len(data_to_yaml.sources) = 3
        /\ Len(data_to_yaml.photometry) = 3
        /\ ReferencesOf(<<"s1">>) = {}
        /\ Cardinality(ReferencesOf(<<"s2">>)) = 2
        /\ Cardinality(ReferencesOf(<<"s3">>)) = 1
        /\ RowsWritten(partitions, <<"s2">>) = 4
        /\ RowsWritten(partitions, <<"s3">>) = 1

C17_Witness ==
    /\ Written(<<"data.yaml">>)
    /\ Len(data) = 3
    /\ Len(data[1].photometry) = 5
    /\ Len(data[2].photometry) = 2
    /\ Len(data[3].photometry) = 0
    /\ Len(data_to_yaml.photometry) = 3

\* ========================================================================
\* main of dump_events_and_sources.py: reading the run parameters
\* ========================================================================
MaxDefects == 2

\* the locals of main, in the order the config file is read (lines 108-117)
Parameters ==
    <<"localizationDateobs", "localizationName", "startDate", "endDate",
      "localizationCumprob", "numberDetections", "numPerPage", "whitelisted",
      "url", "token">>

ParameterNames == {Parameters[i] : i \in 1..Len(Parameters)}

\* the key of the config file a local is read from
ConfigKey(p) ==
    IF p = "url" THEN "skyportal_url"
    ELSE IF p = "token" THEN "skyportal_token"
    ELSE p

\* the arguments argparse gives a value when the command line does not
Defaulted == {"localizationCumprob", "numberDetections", "numPerPage", "whitelisted"}

\* the locals main tests against None, in the order of the tests
RequiredParams ==
    <<"localizationDateobs", "localizationName", "startDate", "endDate",
      "localizationCumprob", "numberDetections", "url", "token">>

ParamInit ==
    /\ FetchIdle
    /\ ExportIdle
    /\ DedupIdle
    /\ DispatchIdle
    /\ RasterIdle
    /\ EnvIdle
    /\ FollowupIdle
    /\ use_config \in BOOLEAN
    /\ provided \in [ParameterNames -> {"value", "null", "absent"}]
    /\ Cardinality({p \in ParameterNames : provided[p] # "value"}) <= MaxDefects
       \* the command line gives an argument or leaves it out
    /\ ~use_config => \A p \in ParameterNames : provided[p] # "null"
    /\ main_pc = "read"
    /\ params = <<>>
    /\ messages = <<>>
    /\ directories_made = FALSE
    /\ dump_called = FALSE

\* the key whose lookup raises KeyError: the first absent one in reading order
FirstAbsentKey(absent) == CHOOSE i \in absent : \A j \in absent : i <= j

\* lines 105-120: the parameters are read from config.yaml; the first key
\* that is absent raises KeyError, which is reported and ends main
ReadConfig ==
    /\ main_pc = "read"
    /\ use_config
    /\ LET absent == {i \in 1..Len(Parameters) : provided[Parameters[i]] = "absent"}
       IN IF absent # {}
          THEN /\ messages' = Append(messages,
                                 [text |-> "not found in config file",
                                  names |-> <<ConfigKey(Parameters[FirstAbsentKey(absent)])>>])
               /\ main_pc' = "returned"
               /\ params' = params
          ELSE /\ params' = [q \in ParameterNames |->
                                IF provided[q] = "value" THEN "set" ELSE "None"]
               /\ main_pc' = "check"
               /\ messages' = messages
    /\ UNCHANGED <<use_config, provided, directories_made, dump_called>>
    /\ UNCHANGED <<fetchVars, exportVars, dedupVars, dispatchVars, rasterVars, envVars, followupVars>>

\* lines 121-131: the parameters are the arguments of the command line
ReadArgs ==
    /\ main_pc = "read"
    /\ ~use_config
    /\ params' = [q \in ParameterNames |->
                     IF provided[q] = "value" \/ q \in Defaulted THEN "set" ELSE "None"]
    /\ main_pc' = "check"
    /\ UNCHANGED <<use_config, provided, messages, directories_made, dump_called>>
    /\ UNCHANGED <<fetchVars, exportVars, dedupVars, dispatchVars, rasterVars, envVars, followupVars>>

\* lines 133-154
CheckMissingParams ==
    /\ main_pc = "check"
    /\ LET IsNone(q) == params[q] = "None"
           missing_params == SelectSeq(RequiredParams, IsNone)
       IN IF Len(missing_params) > 0
          THEN /\ messages' = Append(messages,
                                 [text |-> "the following parameters are missing",
                                  names |-> missing_params])
               /\ main_pc' = "returned"
          ELSE /\ messages' = messages
               /\ main_pc' = "directories"
    /\ UNCHANGED <<use_config, provided, params, directories_made, dump_called>>
    /\ UNCHANGED <<fetchVars, exportVars, dedupVars, dispatchVars, rasterVars, envVars, followupVars>>

\* lines 156-171
MakeDirectories ==
    /\ main_pc = "directories"
    /\ directories_made' = TRUE
    /\ main_pc' = "dump"
    /\ UNCHANGED <<use_config, provided, params, messages, dump_called>>
    /\ UNCHANGED <<fetchVars, exportVars, dedupVars, dispatchVars, rasterVars, envVars, followupVars>>

\* line 173: dump issues the first request of the run
CallDump ==
    /\ main_pc = "dump"
    /\ dump_called' = TRUE
    /\ main_pc' = "done"
    /\ UNCHANGED <<use_config, provided, params, messages, directories_made>>
    /\ UNCHANGED <<fetchVars, exportVars, dedupVars, dispatchVars, rasterVars, envVars, followupVars>>

ParamNext ==
    \/ ReadConfig
    \/ ReadArgs
    \/ CheckMissingParams
    \/ MakeDirectories
    \/ CallDump

ParamSpec == ParamInit /\ [][ParamNext]_vars

\* the required parameters the run was not given: left out of the command
\* line without a default, or absent from the config file or null in it
MissingRequired ==
    {RequiredParams[i] : i \in 1..Len(RequiredParams)} \cap
        {q \in ParameterNames :
            IF use_config THEN provided[q] # "value"
            ELSE provided[q] # "value" /\ q \notin Defaulted}

\* the name under which a message mentions a parameter
ReportedName(q) == IF use_config THEN {q, ConfigKey(q)} ELSE {q}

MessageListsAll(m) ==
    /\ \A q \in MissingRequired : \E k \in 1..Len(m.names) : m.names[k] \in ReportedName(q)
    /\ \A k \in 1..Len(m.names) : \E q \in MissingRequired : m.names[k] \in ReportedName(q)

\* C18: when required parameters are missing, main makes no directory and
\* does not call dump, and once it has returned it has printed exactly one
\* message, which lists every missing parameter.
C18_AllMissingReportedOnce ==
    (main_pc # "idle" /\ MissingRequired # {}) =>
        /\ ~directories_made
        /\ ~dump_called
        /\ main_pc \notin {"directories", "dump", "done"}
        /\ main_pc = "returned" =>
              /\ Len(messages) = 1
              /\ MessageListsAll(messages[1])

\* ========================================================================
\* get_gcnevent_data: which branch a localization name enters
\* ========================================================================
MaxName == 5

\* the pieces of text names are made of
NamePieces == {"1", ".", "-", "_", "fit", "s", "gz"}

\* utils.py line 229
extensions == {<<".", "fit">>, <<".", "fit", "s">>, <<".", "gz">>}

\* Python's `extension in localizationName`
Contains(name, piece) ==
    \E i \in 1..(Len(name) - Len(piece) + 1) :
        SubSeq(name, i, i + Len(piece) - 1) = piece

\* the pattern -?\d+\.?\d* matched against the whole of t
IsDecimal(t) ==
    LET u == IF t # <<>> /\ t[1] = "-" THEN Tail(t) ELSE t
    IN /\ u # <<>>
       /\ u[1] = "1"
       /\ \A k \in 1..Len(u) : u[k] \in {"1", "."}
       /\ Cardinality({k \in 1..Len(u) : u[k] = "."}) <= 1

\* utils.py line 218: re.match of ^-?\d+\.?\d*_-?\d+\.?\d*_-?\d+\.?\d*$
IsCircularName(name) ==
    \E i, j \in 1..Len(name) :
        /\ i < j
        /\ name[i] = "_"
        /\ name[j] = "_"
        /\ \A k \in 1..Len(name) : name[k] = "_" => k \in {i, j}
        /\ IsDecimal(SubSeq(name, 1, i - 1))
        /\ IsDecimal(SubSeq(name, i + 1, j - 1))
        /\ IsDecimal(SubSeq(name, j + 1, Len(name)))

\* the second test dropped: the extension branch is tried for every name
HasExtension_always(name) == TRUE

\* utils.py line 230
HasExtension(name) == \E e \in extensions : Contains(name, e)

\* what a notice of the event holds, as far as get_gcnevent_data looks at
\* it: whether it has a 'content' field, whether the content has a
\* <Position2D unit="deg"> block (without the <C1>, <C2>, <Error2Radius>
\* tags: "malformed"; with values found in the three numbers of the name:
\* "matching"), and whether it has a skymap_fits parameter (whose value
\* contains the name: "matching")
Notices ==
    [content : {TRUE}, position : {"none", "malformed", "matching", "other"},
     fits : {"none", "matching", "other"}]
    \cup [content : {FALSE}, position : {"none"}, fits : {"none"}]

\* the notices of an event the model does not look into
UnknownNotices == [known |-> FALSE, list |-> <<>>]

FirstOf_last(S) == CHOOSE i \in S : \A j \in S : j <= i

\* the first position of a for loop over a list at which a test holds
FirstOf(S) == CHOOSE i \in S : \A j \in S : i <= j

\* lines 215-217 and 221-227: the loop over the position notices ends at the
\* first one that lacks a tag (IndexError) or that matches (returned)
ScanPosition(list) ==
    LET ends == {i \in 1..Len(list) :
                    /\ list[i].content
                    /\ list[i].position \in {"malformed", "matching"}}
    IN IF ends = {} THEN [outcome |-> "unmatched", index |-> 0]
       ELSE IF list[FirstOf(ends)].position = "malformed"
       THEN [outcome |-> "IndexError", index |-> 0]
       ELSE [outcome |-> "matched", index |-> FirstOf(ends)]

\* lines 215-217 and 231-235: the loop over the skymap_fits notices
ScanFits(list) ==
    LET ends == {i \in 1..Len(list) : list[i].content /\ list[i].fits = "matching"}
    IN IF ends = {} THEN [outcome |-> "unmatched", index |-> 0]
       ELSE [outcome |-> "matched", index |-> FirstOf(ends)]

PositionScans ==
    IF notices.known THEN {ScanPosition(notices.list)}
    ELSE {[outcome |-> o, index |-> 0] : o \in {"matched", "unmatched", "IndexError"}}

FitsScans ==
    IF notices.known THEN {ScanFits(notices.list)}
    ELSE {[outcome |-> o, index |-> 0] : o \in {"matched", "unmatched"}}

DispatchInit ==
    /\ FetchIdle
    /\ ExportIdle
    /\ DedupIdle
    /\ MainIdle
    /\ RasterIdle
    /\ EnvIdle
    /\ FollowupIdle
    /\ \E k \in 0..MaxName : localizationName \in [1..k -> NamePieces]
    /\ gd_pc = "get_gcnevent"
    /\ gd_entered = {}
    /\ gd_result = "none"
    /\ notices = UnknownNotices
    /\ gd_notice = 0

\* lines 206-213: the event is fetched and the name looked up in it
GdGetGcnevent ==
    /\ gd_pc = "get_gcnevent"
    /\ \E answer \in {"status", "unknown_name", "known_name"} :
          IF answer = "known_name"
          THEN /\ gd_pc' = "circular"
               /\ gd_result' = gd_result
          ELSE /\ gd_pc' = "returned"
               /\ gd_result' = IF answer = "status" THEN "status" ELSE "404"
    /\ UNCHANGED <<localizationName, gd_entered, notices, gd_notice>>
    /\ UNCHANGED <<fetchVars, exportVars, dedupVars, mainVars, rasterVars, envVars, followupVars>>

\* lines 218-227: the position notices are compared with the three numbers
\* of the name; a position notice without <C1> raises IndexError
GdCircularBranch ==
    /\ gd_pc = "circular"
    /\ IF IsCircularName(localizationName)
       THEN /\ gd_entered' = gd_entered \cup {"circular"}
            /\ \E scan \in PositionScans :
                  IF scan.outcome = "unmatched"
                  THEN /\ gd_pc' = "extension"
                       /\ UNCHANGED <<gd_result, gd_notice>>
                  ELSE /\ gd_pc' = "returned"
                       /\ gd_result' = IF scan.outcome = "matched" THEN "notice"
                                       ELSE "IndexError"
                       /\ gd_notice' = scan.index
       ELSE /\ gd_pc' = "extension"
            /\ UNCHANGED <<gd_entered, gd_result, gd_notice>>
    /\ UNCHANGED <<localizationName, notices>>
    /\ UNCHANGED <<fetchVars, exportVars, dedupVars, mainVars, rasterVars, envVars, followupVars>>

\* lines 229-238: the skymap_fits notices are compared with the name; without
\* a match, and for a name of neither shape, the notice returned is None
GdExtensionBranch ==
    /\ gd_pc = "extension"
    /\ IF HasExtension(localizationName)
       THEN /\ gd_entered' = gd_entered \cup {"extension"}
            /\ \E scan \in FitsScans :
                  /\ gd_result' = IF scan.outcome = "matched" THEN "notice" ELSE "None"
                  /\ gd_notice' = scan.index
       ELSE /\ gd_entered' = gd_entered
            /\ gd_result' = "None"
            /\ gd_notice' = gd_notice
    /\ gd_pc' = "returned"
    /\ UNCHANGED <<localizationName, notices>>
    /\ UNCHANGED <<fetchVars, exportVars, dedupVars, mainVars, rasterVars, envVars, followupVars>>

DispatchNext ==
    \/ GdGetGcnevent
    \/ GdCircularBranch
    \/ GdExtensionBranch

DispatchSpec == DispatchInit /\ [][DispatchNext]_vars

\* three signed decimals separated by underscores, read off the name piece
\* by piece: an optional sign, digits, an optional point and digits
RECURSIVE DecimalsIn(_, _)
DecimalsIn(name, n) ==
    IF n = 0 THEN name = <<>>
    ELSE \E cut \in 1..Len(name) :
            /\ \E sign \in 0..1, whole \in 1..cut, point \in 0..1 :
                  /\ sign + whole + point <= cut
                  /\ \A k \in 1..cut :
                        name[k] = IF k <= sign THEN "-"
                                  ELSE IF k <= sign + whole THEN "1"
                                  ELSE IF k <= sign + whole + point THEN "."
                                  ELSE "1"
                  /\ sign = 1 => name[1] = "-"
            /\ IF n = 1 THEN cut = Len(name)
               ELSE /\ cut < Len(name)
                    /\ name[cut + 1] = "_"
                    /\ DecimalsIn(SubSeq(name, cut + 2, Len(name)), n - 1)

NamesAnExtension(name) ==
    \E i \in 1..Len(name) :
        /\ name[i] = "."
        /\ i < Len(name)
        /\ name[i + 1] \in {"fit", "gz"}

C20_ExactlyOneVariant ==
    entry = "events" =>
        /\ ~({"xml", "skymap"} \subseteq gcn_event)
        /\ gcn_event \in {NoGcnEvent, NoticeEvent, RasterEvent}
        /\ gcn_event = NoticeEvent => notice /\ skymap_requests = 0
        /\ gcn_event = RasterEvent => ~notice /\ skymap_requests = 1
        /\ skymap_requests > 0 => ~notice /\ skymap_requests = 1
        /\ pc \in {"format", "write_data", "write_config", "done"} =>
              gcn_event = IF notice THEN NoticeEvent ELSE RasterEvent
        /\ Written(<<"data.yaml">>) =>
              data_to_yaml.gcn_event = <<IF notice THEN NoticeEvent ELSE RasterEvent>>

C20_Witness ==
    /\ entry = "events"
    /\ Written(<<"data.yaml">>)
    /\ ~notice
    /\ data_to_yaml.gcn_event = <<RasterEvent>>
    /\ skymap_requests = 1

\* ========================================================================
\* get_gcnevent_data: which notice is returned
\* ========================================================================
MaxNotices == 3

\* a name of each shape: "1_1_1", ".gz", "s"
NoticeNames == {<<"1", "_", "1", "_", "1">>, <<".", "gz">>, <<"s">>}

NoticeInit ==
    /\ FetchIdle
    /\ ExportIdle
    /\ DedupIdle
    /\ MainIdle
    /\ RasterIdle
    /\ EnvIdle
    /\ FollowupIdle
    /\ localizationName \in NoticeNames
    /\ \E k \in 0..MaxNotices :
          \E list \in [1..k -> Notices] : notices = [known |-> TRUE, list |-> list]
    /\ gd_pc = "get_gcnevent"
    /\ gd_entered = {}
    /\ gd_result = "none"
    /\ gd_notice = 0

NoticeSpec == NoticeInit /\ [][DispatchNext]_vars

\* the notices that match the localization: the position notices with the
\* numbers of a circular name, the skymap_fits notices with the file of a
\* name with an extension
MatchingNotices ==
    {i \in 1..Len(notices.list) :
        /\ notices.list[i].content
        /\ \/ DecimalsIn(localizationName, 3) /\ notices.list[i].position = "matching"
           \/ NamesAnExtension(localizationName) /\ notices.list[i].fits = "matching"}

CatalogRunData ==
    {<<>>} \cup
    {<<GroupEventSource([k \in 1..Len(ids) |->
                            [instrument_id |-> ids[k],
                             obs |-> [BaseObservation EXCEPT !.mjd = k]]])>> :
        ids \in {<<1>>, <<2>>, <<1, 2>>}}

CatalogInit ==
    /\ FetchIdle
    /\ DedupIdle
    /\ MainIdle
    /\ DispatchIdle
    /\ RasterIdle
    /\ catalog = CatalogOfKind("repeating")
    /\ FollowupIdle
    /\ ExportStart
    /\ entry = "events"
    /\ data \in CatalogRunData

CatalogSpec == CatalogInit /\ [][EventNext]_vars

EventDocumentWritten == entry = "events" /\ Written(<<"data.yaml">>)

\* C22: the telescope and instrument sections of a written document never
\* hold two records that come from the same numeric id.
C22_SectionsDeduplicatedById ==
    EventDocumentWritten =>
        /\ Len(data_to_yaml.instrument) = Len(instruments)
        /\ Len(data_to_yaml.telescope) = Len(telescopes)
        /\ \A i, j \in 1..Len(instruments) : instruments[i].id = instruments[j].id => i = j
        /\ \A i, j \in 1..Len(telescopes) : telescopes[i].id = telescopes[j].id => i = j

\* C23: within a written document no two telescope records and no two
\* instrument records carry the same '=id'.
C23_PortableIdsUnique ==
    EventDocumentWritten =>
        /\ \A i, j \in 1..Len(data_to_yaml.instrument) :
              data_to_yaml.instrument[i].yaml_id = data_to_yaml.instrument[j].yaml_id => i = j
        /\ \A i, j \in 1..Len(data_to_yaml.telescope) :
              data_to_yaml.telescope[i].yaml_id = data_to_yaml.telescope[j].yaml_id => i = j

\* ========================================================================
\* The order of the files of the event export
\* ========================================================================
FilePositions(path) == {i \in 1..Len(files) : files[i].path = path}

SkyFilePositions ==
    FilePositions(<<"localizationName", ".fits">>) \cup FilePositions(<<"localizationName", ".txt">>)

\* C24: the CSV files are written before the sky-event lookup and stay;
\* data.yaml is written only after the lookup returned 200, after the file
\* of the sky event, and config_used.yaml only after data.yaml; a lookup that
\* returned another status ends the run with the CSV files alone.
C24_FilesInOrderNoRollback ==
    (entry = "events" /\ pc # "seperate" /\ ~SeperateCrashed) =>
        LET n == Len(partitions)
        IN /\ Len(files) >= n
           /\ SubSeq(files, 1, n) = CsvWrites(partitions)
           /\ gcn_status = 0 => Len(files) = n
           /\ \A i \in FilePositions(<<"data.yaml">>) :
                 /\ gcn_status = 200
                 /\ i > n
                 /\ \E j \in SkyFilePositions : j < i
           /\ \A i \in FilePositions(<<"config_used.yaml">>) :
                 \E j \in FilePositions(<<"data.yaml">>) : j < i
           /\ gcn_status \notin {0, 200} =>
                 /\ pc = "aborted"
                 /\ files = CsvWrites(partitions)

C24_Witness ==
    /\ entry = "events"
    /\ pc = "aborted"
    /\ gcn_status = 404
    /\ Len(files) = 2
    /\ files = CsvWrites(partitions)

\* C29: a raster request answered with a status other than 200 ends the
\* run as a reported stop, and neither the sky-map file nor data.yaml nor
\* config_used.yaml is written.
C29_FailedRasterStopsRun ==
    (entry = "events" /\ skymap_status \notin {0, 200}) =>
        /\ pc = "aborted"
        /\ ~Written(<<"localizationName", ".fits">>)
        /\ ~Written(<<"data.yaml">>)
        /\ ~Written(<<"config_used.yaml">>)

\* ========================================================================
\* get_all_followup_requests of utils.py
\* ========================================================================
MaxMatches == 300

\* utils.py line 1015
FollowupsPerPage == 100

\* the follow-up requests page p of a catalog of `total` holds
FollowupsOnPage(total, p) ==
    IF total <= (p - 1) * FollowupsPerPage THEN 0
    ELSE Min(FollowupsPerPage, total - (p - 1) * FollowupsPerPage)

FollowupInit ==
    /\ FetchIdle
    /\ ExportIdle
    /\ DedupIdle
    /\ MainIdle
    /\ DispatchIdle
    /\ RasterIdle
    /\ EnvIdle
    /\ fu_instrument_id \in BOOLEAN
    /\ fu_totalMatches \in 0..MaxMatches
    /\ fu_pc = "first"
    /\ fu_pageNumber = 1
    /\ all_followups = 0
    /\ fu_result = NoFollowupResult

\* lines 1027-1028 and 1034-1035: `return status, None, None`
FailedPage(st, accumulated) == [status |-> st, none |-> TRUE, followups |-> 0]

\* lines 1018-1030: the schedule of an instrument is one request; otherwise
\* the first page is requested
FuFirstPage ==
    /\ fu_pc = "first"
    /\ \E st \in Statuses :
          IF fu_instrument_id
          THEN /\ fu_result' = [status |-> st, none |-> st # 200, followups |-> 0]
               /\ fu_pc' = "returned"
               /\ all_followups' = all_followups
          ELSE IF st # 200
          THEN /\ fu_result' = FailedPage(st, all_followups)
               /\ fu_pc' = "returned"
               /\ all_followups' = all_followups
          ELSE /\ all_followups' = FollowupsOnPage(fu_totalMatches, 1)
               /\ fu_pc' = "loop"
               /\ fu_result' = fu_result
    /\ UNCHANGED <<fu_instrument_id, fu_totalMatches, fu_pageNumber>>
    /\ UNCHANGED <<fetchVars, exportVars, dedupVars, mainVars, dispatchVars, rasterVars,
                   envVars>>

\* lines 1031-1036: one turn of the while loop
FuNextPage ==
    /\ fu_pc = "loop"
    /\ fu_pageNumber * FollowupsPerPage < fu_totalMatches
    /\ fu_pageNumber' = fu_pageNumber + 1
    /\ \E st \in Statuses :
          IF st # 200
          THEN /\ fu_result' = FailedPage(st, all_followups)
               /\ fu_pc' = "returned"
               /\ all_followups' = all_followups
          ELSE /\ all_followups' =
                     all_followups + FollowupsOnPage(fu_totalMatches, fu_pageNumber + 1)
               /\ UNCHANGED <<fu_pc, fu_result>>
    /\ UNCHANGED <<fu_instrument_id, fu_totalMatches>>
    /\ UNCHANGED <<fetchVars, exportVars, dedupVars, mainVars, dispatchVars, rasterVars,
                   envVars>>

\* lines 1038-1039
FuReturn ==
    /\ fu_pc = "loop"
    /\ ~(fu_pageNumber * FollowupsPerPage < fu_totalMatches)
    /\ fu_result' = [status |-> 200, none |-> FALSE, followups |-> all_followups]
    /\ fu_pc' = "returned"
    /\ UNCHANGED <<fu_instrument_id, fu_totalMatches, fu_pageNumber, all_followups>>
    /\ UNCHANGED <<fetchVars, exportVars, dedupVars, mainVars, dispatchVars, rasterVars,
                   envVars>>

FollowupNext ==
    \/ FuFirstPage
    \/ FuNextPage
    \/ FuReturn

FollowupSpec == FollowupInit /\ [][FollowupNext]_vars

\* C25: when a page after the first is answered with a status other than
\* 200, get_all_followup_requests returns at once, and what it returns are
\* the follow-up requests accumulated from the earlier pages.
C25_FollowupsKeptOnFailure ==
    (fu_pc = "returned" /\ ~fu_instrument_id /\ fu_pageNumber > 1 /\ fu_result.status # 200) =>
        /\ ~fu_result.none
        /\ fu_result.followups = all_followups
        /\ all_followups = (fu_pageNumber - 1) * FollowupsPerPage

\* ========================================================================
\* Termination of get_all_sources_and_phot
\* ========================================================================
MaxLiveItems == 4

\* get_all_sources_and_phot of utils.py or of dump_sources.py is called on
\* a catalog of at most MaxLiveItems sources
LiveInit ==
    /\ fn \in {"sources_and_phot", "sources_and_phot_ds"}
    /\ numPerPage \in 1..MaxPerPage
    /\ catalogSize \in 0..MaxLiveItems
    /\ whitelisted \in BOOLEAN
    /\ fpc = "page_loop"
    /\ pageNumber = 1
    /\ sources = <<>>
    /\ request_counter = 0
    /\ finished = FALSE
    /\ status_code = 0
    /\ photIndex = 1
    /\ proceeded = FALSE
    /\ nRequests = 0
    /\ nPauses = 0
    /\ pageLog = <<>>
    /\ photLog = <<>>
    /\ pageEndStatus = 0
    /\ allOk = TRUE
    /\ ExportIdle
    /\ SideIdle

LiveNext ==
    \/ GetSourcesPage
    \/ GetSourcesPageDS
    \/ GetPhotometry
    \/ GetPhotometryDS

\* the function runs on: every request it issues is answered, and the
\* iteration that follows is taken
LiveSpec ==
    /\ LiveInit
    /\ [][LiveNext]_vars
    /\ WF_vars(GetSourcesPage)
    /\ WF_vars(GetSourcesPageDS)
    /\ WF_vars(GetPhotometry)
    /\ WF_vars(GetPhotometryDS)

\* the photometry requests issued so far are those of the first sources of
\* the list, in list order, and none was issued while the page loop ran
PhotRequestsFollowPages ==
    /\ Len(photLog) <= Len(sources)
    /\ photLog = [k \in 1..Len(photLog) |-> sources[k].id]
    /\ photLog # <<>> => finished /\ fpc # "page_loop"
    /\ fpc = "page_loop" => ~finished

\* C26: get_all_sources_and_phot returns: its page loop ends, and it has then
\* issued exactly one photometry request per accumulated source, in list
\* order, none of them before the last page request.
C26_TerminatesAfterOnePhotPerSource ==
    /\ []PhotRequestsFollowPages
    /\ <>(/\ fpc = "returned"
          /\ finished
          /\ photLog = [k \in 1..Len(sources) |-> sources[k].id])

C26_Witness ==
    /\ fpc = "returned"
    /\ Len(pageLog) = 3
    /\ Len(sources) = 4
    /\ photLog = <<1, 2, 3, 4>>
    /\ status_code # 200

\* ========================================================================
\* The grouper on failed photometry requests and on colliding file names
\* ========================================================================
\* C27: a source whose photometry request was answered with a status other
\* than 200 does not make the event export fail: the grouping step returns
\* and gives every source its Source record.
C27_FailedPhotometryTolerated ==
    (entry = "events" /\ pc # "seperate"
        /\ \E n \in 1..Len(data) : ~data[n].has_photometry) =>
        /\ ~SeperateCrashed
        /\ Len(source_list) = Len(data)

MaxFilePoints == 2

\* the names the catalog gives the instruments: two instrument ids may share
\* one instrument_name
InstrumentNamings == [PhotInstrumentIds -> {<<"a">>, <<"b">>}]

\* a source of the paginated list: its id may be the id of another element
FileSource(k, ids, naming) ==
    [id |-> <<SourceNames[k]>>, groups |-> <<1>>, has_photometry |-> TRUE,
     photometry |->
        [j \in 1..Len(ids) |->
            [PointOf(ids[j], <<1>>, [BaseObservation EXCEPT !.mjd = j], j)
                EXCEPT !.instrument_name = naming[ids[j]]]]]

FileSources(naming) ==
    {FileSource(k, ids, naming) :
        k \in 1..2, ids \in SeqsUpTo(PhotInstrumentIds, MaxFilePoints)}

FileInit ==
    /\ FetchIdle
    /\ SideIdle
    /\ ExportStart
    /\ entry \in {"events", "sources"}
    /\ \E naming \in InstrumentNamings :
          \E n \in 0..2 : data \in [1..n -> FileSources(naming)]

FileSpec == FileInit /\ [][GroupNext]_vars

\* C28: within one export no two photometry references carry the same file
\* path and no CSV file is written twice.
C28_DistinctPartitionsDistinctFiles ==
    (pc \notin {"idle", "seperate"}) =>
        /\ \A i, j \in 1..Len(photometry_ref) :
              photometry_ref[i].file = photometry_ref[j].file => i = j
        /\ \A i, j \in 1..Len(files) : files[i].path = files[j].path => i = j

\* ========================================================================
\* The event export against a catalog of known content
\* ========================================================================
SectionInit ==
    /\ FetchIdle
    /\ DedupIdle
    /\ MainIdle
    /\ DispatchIdle
    /\ RasterIdle
    /\ FollowupIdle
    /\ \E all_instruments \in PlainInstrumentAnswers,
          all_telescopes \in PlainTelescopeAnswers :
          catalog = [kind |-> "known", instruments |-> all_instruments,
                     telescopes |-> all_telescopes]
    /\ ExportStart
    /\ entry = "events"
    /\ data \in CatalogRunData

SectionSpec == SectionInit /\ [][EventNext]_vars

Range(s) == {s[k] : k \in 1..Len(s)}

\* the instrument ids that occur in the photometry of the exported sources
ExportedInstrumentIds ==
    UNION {{data[n].photometry[j].instrument_id : j \in 1..Len(data[n].photometry)} :
              n \in 1..Len(data)}

ReferencedInstruments ==
    {x \in Range(catalog.instruments) : x.id \in ExportedInstrumentIds}

ReferencedTelescopes ==
    {t \in Range(catalog.telescopes) :
        t.id \in {x.telescope_id : x \in ReferencedInstruments}}

\* C30: in a data.yaml written after both fetches were answered 200, the
\* instrument section is made of exactly the catalog instruments whose id
\* occurs in the exported photometry and the telescope section of exactly the
\* catalog telescopes those instruments reference.
C30_SectionsHoldExactlyTheReferenced ==
    (EventDocumentWritten /\ catalog.kind = "known" /\ fetch_status = <<200, 200>>) =>
        /\ Range(instruments) = ReferencedInstruments
        /\ Range(telescopes) = ReferencedTelescopes
        /\ Len(data_to_yaml.instrument) = Len(instruments)
        /\ \A k \in 1..Len(instruments) :
              data_to_yaml.instrument[k].name = instruments[k].name
        /\ Len(data_to_yaml.telescope) = Len(telescopes)
        /\ \A k \in 1..Len(telescopes) :
              data_to_yaml.telescope[k].nickname = telescopes[k].nickname

C30_Witness ==
    /\ EventDocumentWritten
    /\ catalog.kind = "known"
    /\ fetch_status = <<200, 200>>
    /\ Len(catalog.instruments) = 2
    /\ Len(instruments) = 1
    /\ Len(catalog.telescopes) = 2
    /\ Len(telescopes) = 1

====
